---- MODULE Spec2Model ----
(***************************************************************************)
(* A model of the Aave v3 liquidation strategy (src/strategies/            *)
(* aave_strategy.rs): the state synchronizer (load_cache, update_state,    *)
(* get_borrow_logs, get_supply_logs), the underwater scanner               *)
(* (get_underwater_borrowers), the opportunity evaluator and the tick      *)
(* handler (process_new_tick_event).                                       *)
(*                                                                         *)
(* Addresses are small integers.  Amounts, prices and health factors are   *)
(* naturals; health factors are counted in units of 10^16, so that the     *)
(* wad 10^18 is 100.                                                       *)
(***************************************************************************)
EXTENDS Integers, Sequences, FiniteSets, TLC

(***************************************************************************)
(* Bounds of the model.                                                    *)
(***************************************************************************)
\* borrower addresses are 1..NumUsers
NumUsers == 2
\* reserve token addresses are 1..NumReserves
NumReserves == 2

Users == 1..NumUsers
Reserves == 1..NumReserves

(***************************************************************************)
(* Program constants.                                                      *)
(***************************************************************************)
LOG_BLOCK_RANGE == 1024
MULTICALL_CHUNK_SIZE == 500
\* the literal 50 of get_underwater_borrowers' early stop
UNDERWATER_STOP == 50
\* DeploymentConfig.creation_block of Deployment::AAVE
creation_block == 2963358
\* DeploymentConfig.weth_address: the reserve that is its own numeraire
weth_address == 1

Min(a, b) == IF a < b THEN a ELSE b

\* the largest address of the model
MaxAddress == MULTICALL_CHUNK_SIZE + UNDERWATER_STOP + 1

\* the elements of a set of addresses, ascending
SortedSeq(S) == SelectSeq([i \in 1..MaxAddress |-> i], LAMBDA x : x \in S)

Reverse(s) == [i \in 1..Len(s) |-> s[Len(s) + 1 - i]]

\* an iteration order of a map's keys
map_order(m, tag) ==
    IF tag = "asc" THEN SortedSeq(DOMAIN m) ELSE Reverse(SortedSeq(DOMAIN m))

(***************************************************************************)
(* The chain.  The event log of the pool is a sequence of Borrow and       *)
(* Supply events in block order; a behaviour fixes one log, and every      *)
(* pass is given the head the node returns for it.                         *)
(***************************************************************************)
Ev(off, kind, user, reserve) ==
    [block |-> creation_block + off, kind |-> kind,
     on_behalf_of |-> user, reserve |-> reserve]

\* the logs a behaviour may run against
LogChoices ==
    { << Ev(0, "supply", 1, 1), Ev(1, "borrow", 1, 2), Ev(1024, "borrow", 2, 1),
         Ev(1025, "supply", 2, 2), Ev(2048, "borrow", 1, 1) >>,
      << Ev(1, "borrow", 1, 1), Ev(1, "supply", 1, 1), Ev(1023, "borrow", 2, 2),
         Ev(1024, "supply", 1, 2), Ev(1025, "borrow", 2, 2), Ev(2049, "supply", 2, 1) >> }

\* the heads get_block_number may return, as offsets from creation_block
HeadOffsets == {1, 1025, 2049}
Heads == {creation_block + o : o \in HeadOffsets}

VARIABLES
    pc,                 \* "new": constructed; "running": sync_state returned Ok;
                        \* "failed": sync_state returned Err (the engine stops);
                        \* "panicked": the strategy's task panicked
    chain,              \* the pool's event log
    last_block_number,  \* AaveStrategy.last_block_number
    borrowers,          \* AaveStrategy.borrowers: address -> Borrower
    file,               \* the file STATE_CACHE_FILE
    pass,               \* what the update_state of the last handler did
    tokens,             \* AaveStrategy.tokens: address -> TokenConfig
    use_aave_liquidator,\* AaveStrategy.use_aave_liquidator
    allowance,          \* on chain: the reserves each owner has approved to the pool
    tx_count,           \* on chain: the sender's transaction count
    approvals,          \* the approval transactions the last approve_tokens sent
    emitted,            \* the actions the last process_new_tick_event returned
    scan,               \* what a call of get_underwater_borrowers on its own returned
    eval,               \* what the last call of get_best_liquidation_op returned, and
                        \* the answers of the chain it ran against
    math,               \* the arguments and results of a call of the wad / ray functions
    setup,              \* what a call of update_token_configs or approve_tokens on
                        \* its own did
    calls,              \* the calls the last handler made, in order
    config_l2_encoder   \* AaveStrategy.config.l2_encoder, fixed by the deployment

vars == << pc, chain, last_block_number, borrowers, file, pass, tokens,
           use_aave_liquidator, allowance, tx_count, approvals, emitted, scan,
           eval, math, setup, calls, config_l2_encoder >>

(***************************************************************************)
(* get_borrow_logs / get_supply_logs.                                      *)
(***************************************************************************)
\* the start blocks of (from_block..to_block).step_by(LOG_BLOCK_RANGE)
RECURSIVE window_starts(_, _)
window_starts(from_block, to_block) ==
    IF from_block < to_block
    THEN << from_block >> \o window_starts(from_block + LOG_BLOCK_RANGE, to_block)
    ELSE << >>

\* windows that stop one block short of the next window's start
log_windows_short(from_block, to_block) ==
    LET starts == window_starts(from_block, to_block)
    IN [i \in 1..Len(starts) |->
           << starts[i], Min(starts[i] + LOG_BLOCK_RANGE - 2, to_block) >>]

\* the [start_block, end_block] windows queried between from_block and to_block
log_windows(from_block, to_block) ==
    LET starts == window_starts(from_block, to_block)
    IN [i \in 1..Len(starts) |->
           << starts[i], Min(starts[i] + LOG_BLOCK_RANGE - 1, to_block) >>]

\* the node's answer to a filter query for one window
query(log, kind, w) ==
    SelectSeq(log, LAMBDA e : e.kind = kind /\ w[1] <= e.block /\ e.block <= w[2])

RECURSIVE concat_queries(_, _, _)
concat_queries(log, kind, ws) ==
    IF ws = << >> THEN << >>
    ELSE query(log, kind, Head(ws)) \o concat_queries(log, kind, Tail(ws))

\* get_borrow_logs / get_supply_logs: the query of window number failAt fails
\* (0: none fails).  windows: the windows whose query was sent.
get_logs(log, kind, from_block, to_block, failAt) ==
    LET ws == log_windows(from_block, to_block)
    IN IF failAt \in 1..Len(ws)
       THEN [ok |-> FALSE, windows |-> SubSeq(ws, 1, failAt), logs |-> << >>]
       ELSE [ok |-> TRUE, windows |-> ws, logs |-> concat_queries(log, kind, ws)]

(***************************************************************************)
(* update_state: the fold of the fetched events into the Borrower map.     *)
(***************************************************************************)
\* a borrow event stored with HashMap::insert whether or not the user is known
insert_borrow_replace(bs, e) ==
    LET user == e.on_behalf_of
    IN [x \in DOMAIN bs \cup {user} |->
           IF x = user THEN [address |-> user, collateral |-> {}, debt |-> {e.reserve}]
           ELSE bs[x]]

\* the for_each closure over borrow logs
insert_borrow(bs, e) ==
    LET user == e.on_behalf_of
    IN IF user \in DOMAIN bs
       THEN [bs EXCEPT ![user].debt = @ \cup {e.reserve}]
       ELSE bs @@ (user :> [address |-> user, collateral |-> {}, debt |-> {e.reserve}])

\* a supply event of a known user that puts the reserve in place of the set
insert_supply_overwrite(bs, e) ==
    LET user == e.on_behalf_of
    IN IF user \in DOMAIN bs
       THEN [bs EXCEPT ![user].collateral = {e.reserve}]
       ELSE bs @@ (user :> [address |-> user, collateral |-> {e.reserve}, debt |-> {}])

\* the for_each closure over supply logs
insert_supply(bs, e) ==
    LET user == e.on_behalf_of
    IN IF user \in DOMAIN bs
       THEN [bs EXCEPT ![user].collateral = @ \cup {e.reserve}]
       ELSE bs @@ (user :> [address |-> user, collateral |-> {e.reserve}, debt |-> {}])

RECURSIVE fold_borrow(_, _)
fold_borrow(bs, logs) ==
    IF logs = << >> THEN bs
    ELSE fold_borrow(insert_borrow(bs, Head(logs)), Tail(logs))

RECURSIVE fold_supply(_, _)
fold_supply(bs, logs) ==
    IF logs = << >> THEN bs
    ELSE fold_supply(insert_supply(bs, Head(logs)), Tail(logs))

\* update_state's two folds: the borrow logs, then the supply logs
fold_logs(bs, borrow_logs, supply_logs) ==
    fold_supply(fold_borrow(bs, borrow_logs), supply_logs)

(***************************************************************************)
(* The persisted StateCache.  serde_json writes the map as a JSON object   *)
(* keyed by the address string and each set as an array; reading builds    *)
(* the map and the sets back.                                              *)
(***************************************************************************)
addr_to_string(a) == << "0x", a >>
addr_from_string(s) == s[2]

\* serde_json::to_string(&StateCache)
to_json(lbn, bs) ==
    [last_block_number |-> lbn,
     borrowers |-> { << addr_to_string(u),
                       [address |-> addr_to_string(bs[u].address),
                        collateral |-> {addr_to_string(r) : r \in bs[u].collateral},
                        debt |-> {addr_to_string(r) : r \in bs[u].debt}] >>
                     : u \in DOMAIN bs }]

\* a reader that takes both sets from the "debt" array
from_json_debt_twice(j) ==
    [last_block_number |-> j.last_block_number,
     borrowers |->
        [u \in {addr_from_string(p[1]) : p \in j.borrowers} |->
            LET v == (CHOOSE p \in j.borrowers : addr_from_string(p[1]) = u)[2]
            IN [address |-> addr_from_string(v.address),
                collateral |-> {addr_from_string(s) : s \in v.debt},
                debt |-> {addr_from_string(s) : s \in v.debt}]]]

\* serde_json::from_reader::<StateCache>
from_json(j) ==
    [last_block_number |-> j.last_block_number,
     borrowers |->
        [u \in {addr_from_string(p[1]) : p \in j.borrowers} |->
            LET v == (CHOOSE p \in j.borrowers : addr_from_string(p[1]) = u)[2]
            IN [address |-> addr_from_string(v.address),
                collateral |-> {addr_from_string(s) : s \in v.collateral},
                debt |-> {addr_from_string(s) : s \in v.debt}]]]

NoFile == [kind |-> "absent"]
CorruptFile == [kind |-> "corrupt"]
ValidFile(lbn, bs) == [kind |-> "valid", json |-> to_json(lbn, bs)]

\* a load_cache that takes a malformed file for a missing one
load_cache_fallback(f, lbn, bs) ==
    IF f.kind = "valid"
    THEN [ok |-> TRUE, last_block_number |-> from_json(f.json).last_block_number,
          borrowers |-> from_json(f.json).borrowers]
    ELSE [ok |-> TRUE, last_block_number |-> creation_block, borrowers |-> bs]

\* load_cache: the strategy's fields after the call, and whether it returned Ok
load_cache(f, lbn, bs) ==
    CASE f.kind = "valid" ->
            LET cache == from_json(f.json)
            IN [ok |-> TRUE, last_block_number |-> cache.last_block_number,
                borrowers |-> cache.borrowers]
      [] f.kind = "corrupt" ->
            [ok |-> FALSE, last_block_number |-> lbn, borrowers |-> bs]
      [] OTHER ->
            [ok |-> TRUE, last_block_number |-> creation_block, borrowers |-> bs]

(***************************************************************************)
(* update_state.  head: the block number the node returns; fail: the       *)
(* network or file operation of this pass that fails, if any.              *)
(***************************************************************************)
NoFail == [at |-> "none", k |-> 0]

\* what a pass reports of itself
PassRecord(ok, failed, from_block, latest_block, bw, sw, bl, sl, old) ==
    [ran |-> TRUE, ok |-> ok, failed |-> failed,
     from_block |-> from_block, latest_block |-> latest_block,
     borrow_windows |-> bw, supply_windows |-> sw,
     borrow_logs |-> bl, supply_logs |-> sl, old_borrowers |-> old]

\* no update_state ran in the last handler
NoPass == [ran |-> FALSE]

\* the stages of update_state at which it can return: the call that failed, or
\* "none" for Ok(())
\* self.last_block_number when update_state returns at stage: it is assigned after
\* both folds and before File::create
checkpoint_early(lbn, head, stage) ==
    IF stage \in {"supply", "create", "write", "none"} THEN head ELSE lbn

checkpoint_after(lbn, head, stage) ==
    IF stage \in {"create", "write", "none"} THEN head ELSE lbn

\* the file when update_state returns at stage: File::create truncates it, write_all
\* fills it
file_after(f, head, bs, stage) ==
    CASE stage = "write" -> CorruptFile
      [] stage = "none" -> ValidFile(head, bs)
      [] OTHER -> f

\* the fields last_block_number, borrowers and the file after update_state,
\* with its result
update_state(log, lbn, bs, f, head, fail) ==
    LET b == get_logs(log, "borrow", lbn, head, IF fail.at = "borrow" THEN fail.k ELSE 0)
        bs1 == fold_borrow(bs, b.logs)
        s == get_logs(log, "supply", lbn, head, IF fail.at = "supply" THEN fail.k ELSE 0)
        bs2 == fold_logs(bs, b.logs, s.logs)
        \* where the pass returns
        stage == CASE fail.at = "head" -> "head"
                   [] ~b.ok -> "borrow"
                   [] ~s.ok -> "supply"
                   [] fail.at \in {"create", "write"} -> fail.at
                   [] OTHER -> "none"
        \* the map when it returns
        bsOut == CASE stage \in {"head", "borrow"} -> bs
                   [] stage = "supply" -> bs1
                   [] OTHER -> bs2
    IN [ok |-> stage = "none",
        last_block_number |-> checkpoint_after(lbn, head, stage),
        borrowers |-> bsOut,
        file |-> file_after(f, head, bs2, stage),
        pass |-> PassRecord(stage = "none", stage, lbn,
                            IF stage = "head" THEN lbn ELSE head,
                            IF stage = "head" THEN << >> ELSE b.windows,
                            IF stage \in {"head", "borrow"} THEN << >> ELSE s.windows,
                            IF stage \in {"head", "borrow"} THEN << >> ELSE b.logs,
                            IF stage \in {"head", "borrow", "supply"} THEN << >> ELSE s.logs,
                            bs)]

\* the failures a pass from lbn to head can meet
PassFails(lbn, head) ==
    { NoFail } \cup { [at |-> a, k |-> 0] : a \in {"head", "create", "write"} }
    \cup { [at |-> a, k |-> k] : a \in {"borrow", "supply"},
                                 k \in 1..Len(log_windows(lbn, head)) }

(***************************************************************************)
(* get_underwater_borrowers.  order: the iteration order of the map's      *)
(* values, a sequence of its keys; hf: the health factor the pool reports  *)
(* for each address; failChunk: the chunk whose multicall fails (0: none). *)
(***************************************************************************)
\* 10^18, counted in units of 10^16
HF_ONE == 100

\* borrowers.values().filter(|b| b.debt.len() > 0)
with_debt(bs, order) == SelectSeq(order, LAMBDA u : bs[u].debt # {})

\* a zip loop that compares with le in place of lt
push_underwater_le(chunk, hf, acc) ==
    LET under == SelectSeq(chunk, LAMBDA u : hf[u] <= HF_ONE)
    IN acc \o [i \in 1..Len(under) |-> << under[i], hf[under[i]] >>]

\* the zip loop of one chunk: acc with the (address, health_factor) pairs pushed
push_underwater(chunk, hf, acc) ==
    LET under == SelectSeq(chunk, LAMBDA u : hf[u] < HF_ONE)
    IN acc \o [i \in 1..Len(under) |-> << under[i], hf[under[i]] >>]

\* the loop over borrowers.chunks(MULTICALL_CHUNK_SIZE); i: the chunk's number
RECURSIVE scan_chunks(_, _, _, _, _)
scan_chunks(list, hf, acc, i, failChunk) ==
    IF list = << >> THEN [ok |-> TRUE, list |-> acc, chunks |-> i - 1]
    ELSE IF i = failChunk THEN [ok |-> FALSE, list |-> << >>, chunks |-> i]
    ELSE LET n == Min(MULTICALL_CHUNK_SIZE, Len(list))
             acc1 == push_underwater(SubSeq(list, 1, n), hf, acc)
         IN IF Len(acc1) >= UNDERWATER_STOP
            THEN [ok |-> TRUE, list |-> acc1, chunks |-> i]
            ELSE scan_chunks(SubSeq(list, n + 1, Len(list)), hf, acc1, i + 1, failChunk)

\* underwater_borrowers.sort_by(|a, b| a.1.cmp(&b.1)): a stable sort
sort_by_hf(s) == SortSeq(s, LAMBDA a, b : a[2] < b[2])

get_underwater_borrowers(bs, order, hf, failChunk) ==
    LET r == scan_chunks(with_debt(bs, order), hf, << >>, 1, failChunk)
    IN [ok |-> r.ok, list |-> sort_by_hf(r.list), chunks |-> r.chunks]

\* get_underwater_borrowers was not called on its own
NoScan == [ran |-> FALSE]
NoEval == [ran |-> FALSE]
NoMath == [ran |-> FALSE]
NoSetup == [ran |-> FALSE, n |-> 0]

(***************************************************************************)
(* The opportunity evaluator.  mkt is what the chain answers during one    *)
(* tick: hf, prices, debt (stable + variable, per user and reserve),       *)
(* balance (aToken balance, per user and collateral reserve), gain (the    *)
(* helper contract's simulated gain, per user), first (which element of a  *)
(* HashSet its iterator yields first), order (the map's iteration order),  *)
(* and fail / fail_user (the call that fails, and for whom).               *)
(***************************************************************************)
PRICE_ONE == 100000000
MAX_LIQUIDATION_CLOSE_FACTOR == 10000
DEFAULT_LIQUIDATION_CLOSE_FACTOR == 5000
\* U256::from("950000000000000000") reads the string as hexadecimal digits:
\* 0x950000000000000000 = 149 * 16^16, which is 274877 units of 10^16 (floor)
LIQUIDATION_CLOSE_FACTOR_THRESHOLD == 274877

\* I256 division truncates toward zero
tdiv(a, b) == IF a >= 0 THEN a \div b ELSE -((-a) \div b)

\* a percent_mul that divides by the percentage
percent_mul_inverse(a, bps) == ((a * 10000) + (bps \div 2)) \div bps

percent_mul(a, bps) == (5000 + (a * bps)) \div 10000

percent_div(a, bps) ==
    LET half_bps == bps \div 2
    IN (half_bps + (a * 10000)) \div bps

Ok(v) == [kind |-> "ok", val |-> v]
Err(why) == [kind |-> "err", why |-> why]
Panic(why) == [kind |-> "panic", why |-> why]

\* set.iter().next(): some element of the set, chosen by the hasher
first_of(set, first) ==
    IF first = "lo" THEN CHOOSE x \in set : \A y \in set : x <= y
    ELSE CHOOSE x \in set : \A y \in set : x >= y

\* get_pool_state: one price per key of toks
get_pool_state(toks, mkt) == [r \in DOMAIN toks |-> mkt.prices[r]]

get_asset_price_eth(asset, prices) ==
    IF asset = weth_address THEN Ok(PRICE_ONE)
    ELSE IF asset \notin DOMAIN prices THEN Err("No price found for asset")
    ELSE IF weth_address \notin DOMAIN prices THEN Err("No price found for asset")
    ELSE IF prices[weth_address] = 0 THEN Panic("division by zero")
    ELSE Ok((prices[asset] * PRICE_ONE) \div prices[weth_address])

\* a build_liquidation_call that calls the encoder whatever its address
build_liquidation_call_unchecked(l2_enc, encodeFails) ==
    IF encodeFails THEN Err("encode_liquidation_call failed") ELSE Ok("call")

\* build_liquidation_call: Ok unless the encoder is not deployed or its call fails
build_liquidation_call(l2_encoder, encodeFails) ==
    IF l2_encoder = 0 THEN Err("L2 Encoder address is not deployed on this network")
    ELSE IF encodeFails THEN Err("encode_liquidation_call failed")
    ELSE Ok("call")

\* a build_liquidation that leaves the transaction without the chain id
build_liquidation_unstamped(op, use_aave, l2_enc, encodeFails, id) ==
    IF ~use_aave /\ build_liquidation_call(l2_enc, encodeFails).kind # "ok"
    THEN build_liquidation_call(l2_enc, encodeFails)
    ELSE Ok([to |-> IF use_aave THEN "pool" ELSE "liquidator",
             collateral |-> op.collateral, debt |-> op.debt, borrower |-> op.borrower,
             debt_to_cover |-> op.debt_to_cover, chain_id |-> 0])

\* build_liquidation: the transaction for op, stamped with the chain id
build_liquidation(op, use_aave, l2_encoder, encodeFails, chain_id) ==
    LET tx(to) == [to |-> to, collateral |-> op.collateral, debt |-> op.debt,
                   borrower |-> op.borrower, debt_to_cover |-> op.debt_to_cover,
                   chain_id |-> chain_id]
    IN IF use_aave THEN Ok(tx("pool"))
       ELSE IF build_liquidation_call(l2_encoder, encodeFails).kind = "ok"
            THEN Ok(tx("liquidator"))
            ELSE build_liquidation_call(l2_encoder, encodeFails)

\* the amounts of steps 3 to 6: debt_to_cover and collateral_to_liquidate
liquidation_amounts(total_debt, close_factor, debt_price, collateral_price, debt_unit, collateral_unit, liquidation_bonus, balance) ==
    LET debt_to_cover == (total_debt * close_factor) \div MAX_LIQUIDATION_CLOSE_FACTOR
    IN IF collateral_price * debt_unit = 0 THEN Panic("division by zero")
       ELSE
       LET base_collateral == (debt_price * debt_to_cover * collateral_unit)
                                 \div (collateral_price * debt_unit)
           collateral_to_liquidate == percent_mul(base_collateral, liquidation_bonus)
       IN IF collateral_to_liquidate > balance
          THEN IF liquidation_bonus = 0 THEN Panic("division by zero")
               ELSE IF percent_div(debt_price * collateral_unit, liquidation_bonus) = 0
               THEN Panic("division by zero")
               ELSE Ok([capped |-> TRUE,
                        base_collateral |-> base_collateral,
                        collateral_to_liquidate |-> balance,
                        debt_to_cover |->
                            (collateral_price * balance * debt_unit)
                              \div percent_div(debt_price * collateral_unit,
                                               liquidation_bonus)])
          ELSE Ok([capped |-> FALSE,
                   base_collateral |-> base_collateral,
                   collateral_to_liquidate |-> collateral_to_liquidate,
                   debt_to_cover |-> debt_to_cover])

close_factor_of(health_factor) ==
    IF health_factor > LIQUIDATION_CLOSE_FACTOR_THRESHOLD
    THEN DEFAULT_LIQUIDATION_CLOSE_FACTOR
    ELSE MAX_LIQUIDATION_CLOSE_FACTOR

get_liquidation_opportunity(b, health_factor, prices, toks, mkt, use_aave, l2_encoder) ==
    IF b.collateral = {} THEN Err("No collateral found")
    ELSE IF b.debt = {} THEN Err("No debt found")
    ELSE
    LET collateral_address == first_of(b.collateral, mkt.first)
        debt_address == first_of(b.debt, mkt.first)
        failsHere(call) == mkt.fail = call /\ mkt.fail_user = b.address
    IN IF collateral_address \notin DOMAIN prices THEN Err("No collateral price")
       ELSE IF debt_address \notin DOMAIN prices THEN Err("No debt price")
       ELSE IF collateral_address \notin DOMAIN toks
            THEN Err("Failed to get collateral address")
       ELSE IF debt_address \notin DOMAIN toks THEN Err("Failed to get debt address")
       ELSE IF failsHere("reserve_data") THEN Err("get_user_reserve_data failed")
       ELSE
       LET collateral_config == toks[collateral_address]
           debt_config == toks[debt_address]
           collateral_unit == 10 ^ collateral_config.decimals
           debt_unit == 10 ^ debt_config.decimals
           amounts == liquidation_amounts(
                          mkt.debt[b.address][debt_address],
                          close_factor_of(health_factor),
                          prices[debt_address], prices[collateral_address],
                          debt_unit, collateral_unit,
                          collateral_config.liquidation_bonus,
                          mkt.balance[b.address][collateral_address])
           asset_price_in_eth == get_asset_price_eth(collateral_address, prices)
           debt_price_in_eth == get_asset_price_eth(debt_address, prices)
       IN IF prices[collateral_address] * debt_unit = 0 THEN Panic("division by zero")
          ELSE IF failsHere("balance") THEN Err("balance_of failed")
          ELSE IF amounts.kind = "panic" THEN amounts
          ELSE IF asset_price_in_eth.kind # "ok" THEN asset_price_in_eth
          ELSE IF debt_price_in_eth.kind # "ok" THEN debt_price_in_eth
          ELSE
          LET debt_to_cover == amounts.val.debt_to_cover
              collateral_to_liquidate == amounts.val.collateral_to_liquidate
              op == [borrower |-> b.address, collateral |-> collateral_address,
                     debt |-> debt_address, debt_to_cover |-> debt_to_cover,
                     profit_eth |-> 0, profit_factor |-> 0,
                     collateral_symbol |-> collateral_config.symbol,
                     debt_symbol |-> debt_config.symbol,
                     collateral_to_liquidate |-> collateral_to_liquidate,
                     capped |-> amounts.val.capped]
          IN IF use_aave
             THEN LET asset_value_in_eth ==
                          tdiv(asset_price_in_eth.val * collateral_to_liquidate,
                               collateral_unit)
                      debt_value_in_eth ==
                          tdiv(debt_price_in_eth.val * debt_to_cover, debt_unit)
                  IN IF debt_to_cover = 0 THEN Err("No debt to cover")
                     ELSE IF collateral_address = debt_address
                          THEN Err("Collateral and debt are the same")
                     ELSE Ok([op EXCEPT
                                !.profit_eth = asset_value_in_eth - debt_value_in_eth,
                                !.profit_factor =
                                    IF debt_value_in_eth = 0 THEN 0
                                    ELSE tdiv(asset_value_in_eth * 100, debt_value_in_eth)])
             ELSE IF build_liquidation_call(l2_encoder, failsHere("encode")).kind # "ok"
                  THEN build_liquidation_call(l2_encoder, failsHere("encode"))
             ELSE IF failsHere("simulate") THEN Err("liquidate call failed")
             ELSE Ok([op EXCEPT
                        !.profit_eth =
                            tdiv(mkt.gain[b.address] * asset_price_in_eth.val, PRICE_ONE)])

\* a loop body that keeps the later of two opportunities of equal profit
fold_candidate_ge(r, best_op) ==
    IF r.kind = "panic" THEN r
    ELSE IF r.kind = "ok" /\ (~best_op.some \/ r.val.profit_eth >= best_op.op.profit_eth)
    THEN Ok([some |-> TRUE, op |-> r.val])
    ELSE Ok(best_op)

\* a loop body that returns the error of a candidate with the ? operator
fold_candidate_try(r, best_op) ==
    IF r.kind # "ok" THEN r
    ELSE IF ~best_op.some \/ r.val.profit_eth > best_op.op.profit_eth
    THEN Ok([some |-> TRUE, op |-> r.val])
    ELSE Ok(best_op)

\* the body of the loop of get_best_liquidation_op for the result r of one
\* candidate: best_op after it, or the panic that unwinds the task
fold_candidate(r, best_op) ==
    IF r.kind = "panic" THEN r
    ELSE IF r.kind = "ok" /\ (~best_op.some \/ r.val.profit_eth > best_op.op.profit_eth)
    THEN Ok([some |-> TRUE, op |-> r.val])
    ELSE Ok(best_op)

\* the loop of get_best_liquidation_op over the underwater list
RECURSIVE best_of(_, _, _, _, _, _, _, _)
best_of(underwater, bs, prices, toks, mkt, use_aave, l2_encoder, best_op) ==
    IF underwater = << >> THEN Ok(best_op)
    ELSE LET r == get_liquidation_opportunity(bs[Head(underwater)[1]], Head(underwater)[2],
                                              prices, toks, mkt, use_aave, l2_encoder)
             step == fold_candidate(r, best_op)
         IN IF step.kind # "ok" THEN step
            ELSE best_of(Tail(underwater), bs, prices, toks, mkt, use_aave, l2_encoder,
                         step.val)

None == [some |-> FALSE]

get_best_liquidation_op(bs, toks, mkt, use_aave, l2_encoder) ==
    LET underwater == get_underwater_borrowers(bs, map_order(bs, mkt.order), mkt.hf,
                                               IF mkt.fail = "scan" THEN 1 ELSE 0)
    IN IF mkt.fail = "multicall" \/ ~underwater.ok THEN Err("multicall failed")
       ELSE IF Len(underwater.list) = 0 THEN Err("No underwater borrowers found")
       ELSE IF mkt.fail = "prices" THEN Err("get_pool_state failed")
       ELSE best_of(underwater.list, bs, get_pool_state(toks, mkt), toks, mkt,
                    use_aave, l2_encoder, None)

(***************************************************************************)
(* update_token_configs and approve_tokens.                                *)
(***************************************************************************)
\* DeploymentConfig.l2_encoder of Deployment::AAVE, a deployed contract
l2_encoder == 7
\* Address::zero(), the l2_encoder of the deployments without an encoder
zero_address == 0
\* Config.chain_id, read from the provider at start
chain_id == 8453
\* Args.bid_percentage
bid_percentage == 50

\* what the pool data provider answers for a reserve
ReserveData(r) ==
    [address |-> r, a_address |-> 100 + r,
     decimals |-> IF r = weth_address THEN 2 ELSE 1,
     ltv |-> 8000, liquidation_threshold |-> 8250, liquidation_bonus |-> 10500,
     reserve_factor |-> 1000, protocol_fee |-> 1000, symbol |-> << "SYM", r >>]

\* the loop of update_token_configs over zip(all_tokens, all_a_tokens); tf.cfg and
\* tf.fee: the reserves whose configuration call and protocol-fee call fail
RECURSIVE insert_token_configs(_, _, _)
insert_token_configs(toks, list, tf) ==
    IF list = << >> THEN toks
    ELSE LET r == Head(list)
             cfg == ReserveData(r)
             next == IF r \in tf.cfg \/ r \in tf.fee THEN toks
                     ELSE [x \in DOMAIN toks \cup {r} |-> IF x = r THEN cfg ELSE toks[x]]
         IN insert_token_configs(next, Tail(list), tf)

update_token_configs(toks, tf) ==
    IF tf.list THEN [ok |-> FALSE, tokens |-> toks]
    ELSE [ok |-> TRUE, tokens |-> insert_token_configs(toks, SortedSeq(Reserves), tf)]

\* whose allowance to the pool approve_tokens reads
allowance_owner(use_aave) == IF use_aave THEN "sender" ELSE "liquidator"

\* a counter that a submission leaves where it was
nonce_kept(nonce) == nonce

\* the nonce counter after a submission returned Ok
nonce_after_send(nonce) == nonce + 1

\* the loop of approve_tokens over tokens.keys(); af: the call that fails
RECURSIVE approve_loop(_, _, _, _, _, _)
approve_loop(keys, use_aave, allow, nonce, sent, af) ==
    IF keys = << >>
    THEN [ok |-> TRUE, allowance |-> allow, nonce |-> nonce, approvals |-> sent]
    ELSE LET t == Head(keys)
             owner == allowance_owner(use_aave)
         IN IF af.at = "allowance" /\ af.token = t
            THEN [ok |-> FALSE, allowance |-> allow, nonce |-> nonce, approvals |-> sent]
            ELSE IF t \in allow[owner]
            THEN approve_loop(Tail(keys), use_aave, allow, nonce, sent, af)
            ELSE IF af.at = "send" /\ af.token = t
            THEN [ok |-> FALSE, allowance |-> allow, nonce |-> nonce, approvals |-> sent]
            ELSE approve_loop(Tail(keys), use_aave,
                              [allow EXCEPT ![owner] = @ \cup {t}],
                              nonce_after_send(nonce),
                              Append(sent, [token |-> t, nonce |-> nonce,
                                            call |-> IF use_aave THEN "approve"
                                                     ELSE "approve_pool"]),
                              af)

\* approve_tokens; a transaction that was sent is taken as mined
approve_tokens(toks, use_aave, allow, count, af) ==
    IF af.at = "count"
    THEN [ok |-> FALSE, allowance |-> allow, nonce |-> count, approvals |-> << >>]
    ELSE approve_loop(map_order(toks, "asc"), use_aave, allow, count, << >>, af)

\* the failures update_token_configs can meet
TokenFails ==
    { [list |-> l, cfg |-> {}, fee |-> {}] : l \in BOOLEAN }
    \cup { [list |-> FALSE, cfg |-> {r}, fee |-> {}] : r \in Reserves }
    \cup { [list |-> FALSE, cfg |-> {}, fee |-> {r}] : r \in Reserves }

\* the failures approve_tokens can meet
ApproveFails ==
    { [at |-> a, token |-> 0] : a \in {"none", "count"} }
    \cup { [at |-> a, token |-> r] : a \in {"allowance", "send"}, r \in Reserves }

(***************************************************************************)
(* What the chain may answer during a tick.                                *)
(***************************************************************************)
Mkt(h, d, bal, p, g, first, order, fail, fail_user) ==
    [hf |-> [u \in Users |-> IF u = 1 THEN h[1] ELSE h[2]],
     debt |-> [u \in Users |-> [r \in Reserves |-> IF u = 1 THEN d ELSE d + 1]],
     balance |-> [u \in Users |-> [r \in Reserves |-> bal]],
     prices |-> [r \in Reserves |-> IF r = weth_address THEN 20 ELSE p],
     gain |-> [u \in Users |-> IF u = 1 THEN g ELSE g + 1],
     first |-> first, order |-> order, fail |-> fail, fail_user |-> fail_user]

Markets ==
    { Mkt(h, d, bal, 2, g, "lo", "asc", "none", 0) :
        h \in { << 96, 90 >>, << 90, 99 >>, << 100, 101 >> },
        d \in {1, 10}, bal \in {1, 100}, g \in {-2, 10} }
    \cup { Mkt(<< 96, 90 >>, 10, 100, 2, 10, "lo", "asc", f, 0) :
             f \in {"multicall", "scan", "prices", "build"} }
    \cup { Mkt(<< 96, 90 >>, 10, 100, 2, 10, "lo", "asc", f, u) :
             f \in {"reserve_data", "balance", "encode", "simulate"}, u \in Users }
    \cup { Mkt(<< 96, 90 >>, 10, 100, p, 10, first, order, "none", 0) :
             p \in {0, 1}, first \in {"lo", "hi"}, order \in {"asc", "desc"} }
    \cup { Mkt(<< 96, 90 >>, 0, 100, 2, 10, "lo", "asc", "none", 0) }

(***************************************************************************)
(* The program.  The handlers take the sets their inputs are drawn from:   *)
(* the heads the node may return, the operations that may fail and the     *)
(* answers of the chain.                                                   *)
(***************************************************************************)
\* the cache files an earlier run of the program can have left behind
EarlierFiles(log) ==
    { update_state(log, creation_block, << >>, NoFile, h, NoFail).file : h \in Heads }

Init ==
    /\ pc = "new"
    /\ chain \in LogChoices
    /\ use_aave_liquidator \in BOOLEAN
    /\ last_block_number = 0
    /\ borrowers = << >>
    /\ tokens = << >>
    /\ file \in {NoFile, CorruptFile} \cup EarlierFiles(chain)
    /\ allowance = [o \in {"sender", "liquidator"} |-> {}]
    /\ tx_count = 0
    /\ pass = NoPass
    /\ approvals = << >>
    /\ emitted = << >>
    /\ scan = NoScan
    /\ eval = NoEval
    /\ math = NoMath
    /\ setup = NoSetup
    /\ calls = << >>
    /\ config_l2_encoder = l2_encoder

\* the calls sync_state makes: each one is reached when the one before returned Ok
sync_calls(t_ok, a_ok, l_ok) ==
    << "update_token_configs" >>
    \o (IF t_ok THEN << "approve_tokens" >> ELSE << >>)
    \o (IF t_ok /\ a_ok THEN << "load_cache" >> ELSE << >>)
    \o (IF t_ok /\ a_ok /\ l_ok THEN << "update_state" >> ELSE << >>)

\* Strategy::sync_state
sync_state(TF, AF, HS, FK) ==
    /\ pc = "new"
    /\ \E tf \in TF, af \in AF, head \in HS :
         LET t == update_token_configs(tokens, tf)
             a == approve_tokens(t.tokens, use_aave_liquidator, allowance, tx_count, af)
             l == load_cache(file, last_block_number, borrowers)
         IN /\ emitted' = << >>
            /\ UNCHANGED << config_l2_encoder, chain, use_aave_liquidator, scan, eval, math, setup >>
            /\ calls' = sync_calls(t.ok, a.ok, l.ok)
            /\ IF ~t.ok
               THEN /\ pc' = "failed"
                    /\ pass' = NoPass
                    /\ approvals' = << >>
                    /\ UNCHANGED << tokens, allowance, tx_count, last_block_number,
                                    borrowers, file >>
               ELSE /\ tokens' = t.tokens
                    /\ allowance' = a.allowance
                    /\ tx_count' = a.nonce
                    /\ approvals' = a.approvals
                    /\ IF ~a.ok \/ ~l.ok
                       THEN /\ pc' = "failed"
                            /\ pass' = NoPass
                            /\ UNCHANGED << last_block_number, borrowers, file >>
                       ELSE \E fail \in PassFails(l.last_block_number, head) :
                              LET u == update_state(chain, l.last_block_number,
                                                    l.borrowers, file, head, fail)
                              IN /\ fail.at \in FK
                                 /\ pc' = IF u.ok THEN "running" ELSE "failed"
                                 /\ last_block_number' = u.last_block_number
                                 /\ borrowers' = u.borrowers
                                 /\ file' = u.file
                                 /\ pass' = u.pass

\* the Vec<Action> process_new_tick_event returns once update_state succeeded
tick_actions(bs, toks, mkt, use_aave) ==
    LET best == get_best_liquidation_op(bs, toks, mkt, use_aave, config_l2_encoder)
    IN IF best.kind = "panic" THEN best
       ELSE IF best.kind = "err" THEN Ok(<< >>)
       ELSE IF ~best.val.some THEN Ok(<< >>)
       ELSE IF best.val.op.profit_eth < 0 THEN Ok(<< >>)
       ELSE LET tx == build_liquidation(best.val.op, use_aave, config_l2_encoder,
                                        mkt.fail = "build", chain_id)
            IN IF tx.kind # "ok" THEN Ok(<< >>)
               ELSE Ok(<< [tx |-> tx.val,
                           gas_bid_info |-> [bid_percentage |-> bid_percentage,
                                             total_profit |-> best.val.op.profit_eth]] >>)

\* how many candidates the loop of get_best_liquidation_op evaluates: all of
\* them, or those up to the one that panics
RECURSIVE evaluated(_, _, _, _, _, _, _)
evaluated(underwater, bs, prices, toks, mkt, use_aave, l2_enc) ==
    IF underwater = << >> THEN 0
    ELSE LET r == get_liquidation_opportunity(bs[Head(underwater)[1]], Head(underwater)[2],
                                              prices, toks, mkt, use_aave, l2_enc)
         IN IF r.kind = "panic" THEN 1
            ELSE 1 + evaluated(Tail(underwater), bs, prices, toks, mkt, use_aave, l2_enc)

\* the calls get_best_liquidation_op makes
best_op_calls(bs, toks, mkt, use_aave) ==
    LET underwater == get_underwater_borrowers(bs, map_order(bs, mkt.order), mkt.hf,
                                               IF mkt.fail = "scan" THEN 1 ELSE 0)
    IN << "get_underwater_borrowers" >>
       \o (IF mkt.fail = "multicall" \/ ~underwater.ok \/ Len(underwater.list) = 0
           THEN << >>
           ELSE << "get_pool_state" >>
                \o (IF mkt.fail = "prices" THEN << >>
                    ELSE [i \in 1..evaluated(underwater.list, bs,
                                             get_pool_state(toks, mkt), toks, mkt,
                                             use_aave, config_l2_encoder)
                             |-> "get_liquidation_opportunity"]))

\* the calls process_new_tick_event makes once update_state succeeded
tick_calls(bs, toks, mkt, use_aave) ==
    LET best == get_best_liquidation_op(bs, toks, mkt, use_aave, config_l2_encoder)
    IN << "get_best_liquidation_op" >>
       \o best_op_calls(bs, toks, mkt, use_aave)
       \o (IF best.kind = "ok" /\ best.val.some /\ best.val.op.profit_eth >= 0
           THEN << "build_liquidation" >> ELSE << >>)

\* Strategy::process_event(Event::NewTick)
process_new_tick_event(HS, FK, MS) ==
    /\ pc = "running"
    /\ \E head \in HS :
         \E fail \in PassFails(last_block_number, head) :
           LET u == update_state(chain, last_block_number, borrowers, file, head, fail)
           IN /\ fail.at \in FK
              /\ last_block_number' = u.last_block_number
              /\ borrowers' = u.borrowers
              /\ file' = u.file
              /\ pass' = u.pass
              /\ UNCHANGED << config_l2_encoder, chain, use_aave_liquidator, tokens, allowance,
                              tx_count,
                              approvals, scan, math, setup >>
              /\ IF ~u.ok
                 THEN /\ emitted' = << >> /\ pc' = pc /\ calls' = << "update_state" >>
                      /\ eval' = NoEval
                 ELSE \E mkt \in MS :
                        LET r == tick_actions(u.borrowers, tokens, mkt,
                                              use_aave_liquidator)
                            w == get_underwater_borrowers(
                                     u.borrowers, map_order(u.borrowers, mkt.order),
                                     mkt.hf, IF mkt.fail = "scan" THEN 1 ELSE 0)
                        IN /\ eval' = [ran |-> TRUE, mkt |-> mkt, underwater |-> w.list,
                                       result |-> get_best_liquidation_op(
                                                      u.borrowers, tokens, mkt,
                                                      use_aave_liquidator, config_l2_encoder)]
                           /\ calls' = << "update_state" >>
                                       \o tick_calls(u.borrowers, tokens, mkt,
                                                     use_aave_liquidator)
                           /\ IF r.kind = "panic"
                              THEN emitted' = << >> /\ pc' = "panicked"
                              ELSE emitted' = r.val /\ pc' = pc

FailKinds == {"none", "head", "borrow", "supply", "create", "write"}

\* the synchronizer under every head and failure, the chain's answers to the
\* evaluator drawn from a few
SyncMarkets ==
    { Mkt(<< 96, 90 >>, d, 100, 2, 10, "lo", "asc", "none", 0) : d \in {1, 10} }

StartUp == sync_state(TokenFails, ApproveFails, Heads, FailKinds)

Tick == process_new_tick_event(Heads, FailKinds, SyncMarkets)

Next == StartUp \/ Tick

Spec == Init /\ [][Next]_vars

(***************************************************************************)
(* The ticks of a strategy that started without failure, under the         *)
(* failures of the multicalls and of the transaction builder.              *)
(***************************************************************************)
\* the chain's answers to a tick: an opportunity with a negative and with a
\* positive simulated gain, no borrower underwater, and each call failing
TickMarkets ==
    { Mkt(<< 96, 90 >>, 10, 100, 2, g, "lo", "asc", "none", 0) : g \in {-2, 10} }
    \cup { Mkt(<< 100, 101 >>, 10, 100, 2, 10, "lo", "asc", "none", 0) }
    \cup { Mkt(<< 96, 90 >>, 10, 100, 2, 10, "lo", "asc", f, 0) :
             f \in {"multicall", "scan", "prices", "build"} }

StartUpClean ==
    sync_state({[list |-> FALSE, cfg |-> {}, fee |-> {}]}, {[at |-> "none", token |-> 0]},
               Heads, {"none"})

TickUnderFailures == process_new_tick_event(Heads, FailKinds, TickMarkets)

NextTick == StartUpClean \/ TickUnderFailures

SpecTick == Init /\ [][NextTick]_vars

(***************************************************************************)
(* get_underwater_borrowers on its own, over Borrower maps larger than a   *)
(* chunk and larger than the early stop.                                   *)
(***************************************************************************)
\* the sizes of the Borrower maps scanned
PopSizes ==
    {0, 3, UNDERWATER_STOP - 1, UNDERWATER_STOP, UNDERWATER_STOP + 1,
     MULTICALL_CHUNK_SIZE + 1, MaxAddress}

\* every NoDebtEvery-th borrower only supplied (0: every borrower has debt)
NoDebtChoices == {0, 7}

Population(n, noDebtEvery) ==
    [u \in 1..n |->
        [address |-> u, collateral |-> {1},
         debt |-> IF noDebtEvery # 0 /\ u % noDebtEvery = 0 THEN {} ELSE {2}]]

\* the health factors the pool reports, by address
HfPatterns == {"low", "one", "mixed", "late", "spread"}

HfPattern(id, n) ==
    [u \in 1..n |->
        CASE id = "low" -> HF_ONE - 10
          [] id = "one" -> HF_ONE
          [] id = "mixed" -> HF_ONE - 5 + (u % 10)
          [] id = "late" -> IF u <= MULTICALL_CHUNK_SIZE THEN HF_ONE - 1 ELSE 10
          [] OTHER -> (7 * u) % (HF_ONE + 20)]

\* iteration orders of the map
ScanOrders == {"asc", "desc"}

InitScan ==
    /\ pc = "running"
    /\ chain = << >>
    /\ use_aave_liquidator = TRUE
    /\ last_block_number = creation_block
    /\ borrowers \in { Population(n, e) : n \in PopSizes, e \in NoDebtChoices }
    /\ tokens = << >>
    /\ file = NoFile
    /\ allowance = [o \in {"sender", "liquidator"} |-> {}]
    /\ tx_count = 0
    /\ pass = NoPass
    /\ approvals = << >>
    /\ emitted = << >>
    /\ scan = NoScan
    /\ eval = NoEval
    /\ math = NoMath
    /\ setup = NoSetup
    /\ calls = << >>
    /\ config_l2_encoder = l2_encoder

\* a call of get_underwater_borrowers
ScanBorrowers ==
    /\ pc = "running"
    /\ ~scan.ran
    /\ \E id \in HfPatterns, order \in ScanOrders, failChunk \in 0..2 :
         LET hf == HfPattern(id, Len(borrowers))
             r == get_underwater_borrowers(borrowers, map_order(borrowers, order), hf,
                                           failChunk)
         IN scan' = [ran |-> TRUE, ok |-> r.ok, list |-> r.list, chunks |-> r.chunks,
                     hf |-> hf, order |-> order]
    /\ UNCHANGED << config_l2_encoder,
                    pc, chain, last_block_number, borrowers, file, pass, tokens,
                    use_aave_liquidator, allowance, tx_count, approvals, emitted,
                    eval, math, setup, calls >>

NextScan == ScanBorrowers

SpecScan == InitScan /\ [][NextScan]_vars

(***************************************************************************)
(* get_best_liquidation_op and the rest of a tick on their own, over       *)
(* Borrower maps whose borrowers are all candidates.                       *)
(***************************************************************************)
\* the borrowers of the maps evaluated are 1..NumCandidates
NumCandidates == 4

Candidates == 1..NumCandidates

\* a reserve the pool listed after update_token_configs ran: no TokenConfig, no price
unlisted_reserve == NumReserves + 1

\* the other reserve: not the numeraire
other_reserve == weth_address + 1

\* the sets of a Borrower: weth supplied and the other reserve borrowed, or
\* one of the shapes the event log can also give
BorrowerShapes == {"usual", "same_asset", "no_collateral", "unlisted_collateral", "unlisted_debt"}

BorrowerOf(u, shape) ==
    [address |-> u,
     collateral |-> CASE shape = "no_collateral" -> {}
                      [] shape = "unlisted_collateral" -> {unlisted_reserve}
                      [] OTHER -> {weth_address},
     debt |-> CASE shape = "same_asset" -> {weth_address}
                [] shape = "unlisted_debt" -> {unlisted_reserve}
                [] OTHER -> {other_reserve}]

\* the maps evaluated: at most one borrower of another shape than the usual
EvalBorrowers ==
    { [u \in Candidates |-> BorrowerOf(u, IF u = odd THEN shape ELSE "usual")] :
        odd \in Candidates, shape \in BorrowerShapes }

\* the health factors the pool reports, all below 1e18 but for "some"
EvalHfPatterns == {"rising", "falling", "equal", "some"}

EvalHf(id) ==
    [u \in Candidates |->
        CASE id = "rising" -> HF_ONE - 10 + u
          [] id = "falling" -> HF_ONE - u
          [] id = "equal" -> HF_ONE - 1
          [] OTHER -> IF u = 2 THEN HF_ONE ELSE HF_ONE - 10 + u]

\* what the simulated liquidate call returns, by borrower
GainPatterns == {"tied", "negative", "spread"}

EvalGain(id) ==
    [u \in Candidates |->
        CASE id = "tied" -> IF u = 1 THEN -5 ELSE IF u = 2 THEN 3 ELSE 10
          [] id = "negative" -> -u
          [] OTHER -> IF u = 2 THEN 10 ELSE IF u = 1 THEN 3 ELSE 0 - 5]

\* the chain's answers to one evaluation
EvalMkt(hfId, gainId, d, bal, pw, p, fail, fail_user) ==
    [hf |-> EvalHf(hfId),
     debt |-> [u \in Candidates |-> [r \in Reserves |-> d]],
     balance |-> [u \in Candidates |-> [r \in Reserves |-> bal]],
     prices |-> [r \in Reserves |-> IF r = weth_address THEN pw ELSE p],
     gain |-> EvalGain(gainId),
     first |-> "lo", order |-> "asc", fail |-> fail, fail_user |-> fail_user]

EvalMarkets ==
    { EvalMkt(h, g, d, bal, 20, 2, "none", 0) :
        h \in EvalHfPatterns, g \in GainPatterns, d \in {0, 1, 20}, bal \in {1, 20, 100} }
    \cup { EvalMkt(h, "tied", 1, 100, pw, p, "none", 0) :
             h \in {"rising", "falling"}, pw \in {0, 20}, p \in {0, 2} }
    \cup { EvalMkt("rising", "tied", 1, 100, 20, 2, f, u) :
             f \in {"reserve_data", "balance", "encode", "simulate"}, u \in {2, 3} }
    \cup { EvalMkt("rising", "tied", 1, 100, 20, 2, f, 0) :
             f \in {"multicall", "scan", "prices"} }

InitEval ==
    /\ pc = "running"
    /\ chain = << >>
    /\ use_aave_liquidator \in BOOLEAN
    /\ last_block_number = creation_block
    /\ borrowers \in EvalBorrowers
    /\ tokens = update_token_configs(<< >>, [list |-> FALSE, cfg |-> {}, fee |-> {}]).tokens
    /\ file = NoFile
    /\ allowance = [o \in {"sender", "liquidator"} |-> {}]
    /\ tx_count = 0
    /\ pass = NoPass
    /\ approvals = << >>
    /\ emitted = << >>
    /\ scan = NoScan
    /\ eval = NoEval
    /\ math = NoMath
    /\ setup = NoSetup
    /\ calls = << >>
    /\ config_l2_encoder \in {l2_encoder, zero_address}

\* process_new_tick_event from the call of get_best_liquidation_op on
Evaluate ==
    /\ pc = "running"
    /\ ~eval.ran
    /\ \E mkt \in EvalMarkets :
         LET u == get_underwater_borrowers(borrowers, map_order(borrowers, mkt.order),
                                           mkt.hf, IF mkt.fail = "scan" THEN 1 ELSE 0)
             r == get_best_liquidation_op(borrowers, tokens, mkt, use_aave_liquidator,
                                          config_l2_encoder)
             t == tick_actions(borrowers, tokens, mkt, use_aave_liquidator)
         IN /\ eval' = [ran |-> TRUE, mkt |-> mkt, underwater |-> u.list, result |-> r]
            /\ emitted' = IF t.kind = "panic" THEN << >> ELSE t.val
            /\ pc' = IF t.kind = "panic" THEN "panicked" ELSE pc
    /\ UNCHANGED << config_l2_encoder,
                    chain, last_block_number, borrowers, file, pass, tokens,
                    use_aave_liquidator, allowance, tx_count, approvals, scan, math,
                    setup, calls >>

NextEval == Evaluate

SpecEval == InitEval /\ [][NextEval]_vars

(***************************************************************************)
(* wad_ray_math.rs.  U256 is an unsigned word of WordBits bits; the wad is *)
(* 10 and the ray 100 in place of 10^18 and 10^27, their ratio 10 in place *)
(* of 10^9.  The U256 operators panic on overflow and on division by zero. *)
(***************************************************************************)
\* the width of the unsigned word
WordBits == 8

\* U256::max_value()
max_value == 2 ^ WordBits - 1

Words == 0..max_value

WAD == 10
HALF_WAD == 5
RAY == 100
HALF_RAY == 50
WAD_RAY_RATIO == 10

\* a wad_mul without the half wad
wad_mul_truncating(a, b) ==
    IF b = 0 THEN Ok(0)
    ELSE IF a > (max_value - HALF_WAD) \div b THEN Panic("wadMul: multiplication overflow")
    ELSE Ok((a * b) \div WAD)

wad_mul(a, b) ==
    IF b = 0 THEN Ok(0)
    ELSE LET max_a == (max_value - HALF_WAD) \div b
         IN IF a > max_a THEN Panic("wadMul: multiplication overflow")
            ELSE Ok((a * b + HALF_WAD) \div WAD)

\* a wad_div without the half divisor
wad_div_truncating(a, b) ==
    IF b = 0 THEN Panic("wadDiv: division by zero")
    ELSE IF a > (max_value - b \div 2) \div WAD THEN Panic("wadDiv: multiplication overflow")
    ELSE Ok((a * WAD) \div b)

\* a wad_div that scales by the ray
wad_div_ray_scale(a, b) ==
    IF b = 0 THEN Panic("wadDiv: division by zero")
    ELSE IF a > (max_value - b \div 2) \div RAY THEN Panic("wadDiv: multiplication overflow")
    ELSE Ok((a * RAY + b \div 2) \div b)

wad_div(a, b) ==
    IF b = 0 THEN Panic("wadDiv: division by zero")
    ELSE LET half_b == b \div 2
             max_a == (max_value - half_b) \div WAD
         IN IF a > max_a THEN Panic("wadDiv: multiplication overflow")
            ELSE Ok((a * WAD + half_b) \div b)

\* a ray_mul without the early return for b = 0: the bound divides by b
ray_mul_no_zero_return(a, b) ==
    IF b = 0 THEN Panic("division by zero")
    ELSE IF a > (max_value - HALF_RAY) \div b THEN Panic("rayMul: multiplication overflow")
    ELSE Ok((a * b + HALF_RAY) \div RAY)

ray_mul(a, b) ==
    IF b = 0 THEN Ok(0)
    ELSE LET max_a == (max_value - HALF_RAY) \div b
         IN IF a > max_a THEN Panic("rayMul: multiplication overflow")
            ELSE Ok((a * b + HALF_RAY) \div RAY)

ray_div(a, b) ==
    IF b = 0 THEN Panic("rayDiv: division by zero")
    ELSE LET half_b == b \div 2
             max_a == (max_value - half_b) \div RAY
         IN IF a > max_a THEN Panic("rayDiv: multiplication overflow")
            ELSE Ok((a * RAY + half_b) \div b)

\* a ray_to_wad that rounds up only above the half
ray_to_wad_gt(a) ==
    IF a % WAD_RAY_RATIO > WAD_RAY_RATIO \div 2 THEN Ok(a \div WAD_RAY_RATIO + 1)
    ELSE Ok(a \div WAD_RAY_RATIO)

ray_to_wad(a) ==
    LET ratio == WAD_RAY_RATIO
        result == a \div ratio
        remainder == a % ratio
    IN IF remainder >= ratio \div 2 THEN Ok(result + 1) ELSE Ok(result)

\* a wad_to_ray whose product wraps around and is returned
wad_to_ray_wrapping(a) == Ok((a * WAD_RAY_RATIO) % (max_value + 1))

\* a * ratio is a U256 product: it panics before the test of result / ratio
wad_to_ray(a) ==
    LET ratio == WAD_RAY_RATIO
    IN IF a * ratio > max_value THEN Panic("arithmetic operation overflow")
       ELSE Ok(a * ratio)

InitMath ==
    /\ pc = "running"
    /\ chain = << >>
    /\ use_aave_liquidator = TRUE
    /\ last_block_number = creation_block
    /\ borrowers = << >>
    /\ tokens = << >>
    /\ file = NoFile
    /\ allowance = [o \in {"sender", "liquidator"} |-> {}]
    /\ tx_count = 0
    /\ pass = NoPass
    /\ approvals = << >>
    /\ emitted = << >>
    /\ scan = NoScan
    /\ eval = NoEval
    /\ math \in { [ran |-> FALSE, a |-> a, b |-> b] : a \in Words, b \in Words }
    /\ setup = NoSetup
    /\ calls = << >>
    /\ config_l2_encoder = l2_encoder

\* one call of each function on the arguments drawn
ApplyMath ==
    /\ ~math.ran
    /\ math' = [ran |-> TRUE, a |-> math.a, b |-> math.b,
                wad_mul |-> wad_mul(math.a, math.b),
                wad_div |-> wad_div(math.a, math.b),
                ray_mul |-> ray_mul(math.a, math.b),
                ray_div |-> ray_div(math.a, math.b),
                ray_to_wad |-> ray_to_wad(math.a),
                wad_to_ray |-> wad_to_ray(math.a)]
    /\ UNCHANGED << config_l2_encoder,
                    pc, chain, last_block_number, borrowers, file, pass, tokens,
                    use_aave_liquidator, allowance, tx_count, approvals, emitted,
                    scan, eval, setup, calls >>

NextMath == ApplyMath

SpecMath == InitMath /\ [][NextMath]_vars

(***************************************************************************)
(* update_token_configs and approve_tokens on their own, called more than  *)
(* once, over senders and liquidators that already approved some reserves. *)
(***************************************************************************)
\* how many calls of the two methods one behaviour makes
MaxSetupCalls == 3

\* the transaction counts the sender can start from
StartCounts == {0, 7}

InitSetup ==
    /\ pc = "new"
    /\ chain = << >>
    /\ use_aave_liquidator \in BOOLEAN
    /\ last_block_number = 0
    /\ borrowers = << >>
    /\ tokens = << >>
    /\ file = NoFile
    /\ allowance \in [{"sender", "liquidator"} -> {{}, {weth_address}}]
    /\ tx_count \in StartCounts
    /\ pass = NoPass
    /\ approvals = << >>
    /\ emitted = << >>
    /\ scan = NoScan
    /\ eval = NoEval
    /\ math = NoMath
    /\ setup = NoSetup
    /\ calls = << >>
    /\ config_l2_encoder = l2_encoder

\* a call of update_token_configs
RefreshTokens ==
    /\ setup.n < MaxSetupCalls
    /\ \E tf \in TokenFails :
         LET t == update_token_configs(tokens, tf)
         IN /\ tokens' = t.tokens
            /\ setup' = [ran |-> TRUE, n |-> setup.n + 1, call |-> "update_token_configs",
                         ok |-> t.ok, tf |-> tf, af |-> [at |-> "none", token |-> 0],
                         tokens_before |-> tokens, allowance_before |-> allowance,
                         count_before |-> tx_count]
    /\ UNCHANGED << config_l2_encoder,
                    pc, chain, last_block_number, borrowers, file, pass,
                    use_aave_liquidator, allowance, tx_count, approvals, emitted,
                    scan, eval, math, calls >>

\* a call of approve_tokens
ApproveTokens ==
    /\ setup.n < MaxSetupCalls
    /\ \E af \in ApproveFails :
         LET a == approve_tokens(tokens, use_aave_liquidator, allowance, tx_count, af)
         IN /\ allowance' = a.allowance
            /\ tx_count' = a.nonce
            /\ approvals' = a.approvals
            /\ setup' = [ran |-> TRUE, n |-> setup.n + 1, call |-> "approve_tokens",
                         ok |-> a.ok, tf |-> [list |-> FALSE, cfg |-> {}, fee |-> {}],
                         af |-> af, tokens_before |-> tokens,
                         allowance_before |-> allowance, count_before |-> tx_count]
    /\ UNCHANGED << config_l2_encoder,
                    pc, chain, last_block_number, borrowers, file, pass, tokens,
                    use_aave_liquidator, emitted, scan, eval, math, calls >>

NextSetup == RefreshTokens \/ ApproveTokens

SpecSetup == InitSetup /\ [][NextSetup]_vars

(***************************************************************************)
(* The state synchronizer.                                                 *)
(***************************************************************************)
\* C1: across every write of the StateCache and for every sequence of heads the
\* node returns, a head lower than the checkpoint included, the written
\* last_block_number is never smaller than the one written before, and the
\* in-memory checkpoint never decreases.
C1_CheckpointNeverDecreases ==
    [][ /\ (pc = "running" => last_block_number' >= last_block_number)
        /\ (file.kind = "valid" /\ file'.kind = "valid"
              => file'.json.last_block_number >= file.json.last_block_number) ]_vars

\* the events of one kind in the windows a pass queried
Fetched(kind, windows) ==
    { e \in { chain[i] : i \in DOMAIN chain } :
        /\ e.kind = kind
        /\ \E j \in DOMAIN windows : windows[j][1] <= e.block /\ e.block <= windows[j][2] }

\* C2: a pass in which a borrow or supply window query fails returns an error and
\* leaves the in-memory checkpoint and the persisted StateCache as they were; the
\* pass after it starts its queries from that same checkpoint.
C2_FailedQueryKeepsCheckpoint ==
    [][ /\ (pass'.ran /\ pass'.failed \in {"borrow", "supply"}
              => /\ ~pass'.ok
                 /\ last_block_number' = pass'.from_block
                 /\ (pc = "running" => last_block_number' = last_block_number)
                 /\ file' = file)
        /\ (pc = "running" /\ pass'.ran
              => /\ pass'.from_block = last_block_number
                 /\ (pass'.borrow_windows # << >>
                       => pass'.borrow_windows[1][1] = last_block_number)
                 /\ (pass'.supply_windows # << >>
                       => pass'.supply_windows[1][1] = last_block_number)) ]_vars

\* a tick's pass failed on a supply window after its borrow windows, which hold
\* events, had been fetched
C2_Witness ==
    /\ pc = "running"
    /\ pass.ran
    /\ pass.failed = "supply"
    /\ Fetched("borrow", pass.borrow_windows) # {}
    /\ last_block_number = pass.from_block
    /\ last_block_number < pass.latest_block

\* the map a handler's pass starts from: the strategy's map in a tick, the loaded
\* one in sync_state
OldBorrowers == IF pc = "running" THEN borrowers ELSE pass'.old_borrowers

Known(m, u, field) ==
    IF u \in DOMAIN m THEN (IF field = "debt" THEN m[u].debt ELSE m[u].collateral)
    ELSE {}

\* C3: after a successful pass every address has the debt set it had united with
\* the reserves of the fetched borrow events on its behalf, and the collateral set
\* it had united with those of the fetched supply events; a Borrower exists from
\* the first event of its address; and no pass, successful or failed, removes a
\* Borrower or an element of its sets.
C3_FoldAddsReserves ==
    [][ /\ (pass'.ran /\ pass'.ok
              => LET bor == Fetched("borrow", pass'.borrow_windows)
                     sup == Fetched("supply", pass'.supply_windows)
                 IN /\ DOMAIN borrowers'
                         = DOMAIN OldBorrowers \cup { e.on_behalf_of : e \in bor \cup sup }
                    /\ \A u \in DOMAIN borrowers' :
                         /\ borrowers'[u].address = u
                         /\ borrowers'[u].debt
                              = Known(OldBorrowers, u, "debt")
                                  \cup { e.reserve : e \in { x \in bor : x.on_behalf_of = u } }
                         /\ borrowers'[u].collateral
                              = Known(OldBorrowers, u, "collateral")
                                  \cup { e.reserve : e \in { x \in sup : x.on_behalf_of = u } })
        /\ DOMAIN borrowers \subseteq DOMAIN borrowers'
        /\ \A u \in DOMAIN borrowers :
             /\ borrowers[u].debt \subseteq borrowers'[u].debt
             /\ borrowers[u].collateral \subseteq borrowers'[u].collateral ]_vars

\* a successful tick added a second reserve to a known borrower's collateral and
\* created a Borrower
C3_Witness ==
    /\ pc = "running"
    /\ pass.ran /\ pass.ok
    /\ DOMAIN pass.old_borrowers # DOMAIN borrowers
    /\ \E u \in DOMAIN pass.old_borrowers :
         /\ pass.old_borrowers[u].collateral # {}
         /\ pass.old_borrowers[u].collateral # borrowers[u].collateral

\* the block numbers ranges are cut at
RangePoints == {creation_block} \cup Heads

\* the borrow and supply events of blocks a..b folded into m
FoldBlocks(m, a, b) ==
    fold_logs(m, query(chain, "borrow", << a, b >>), query(chain, "supply", << a, b >>))

\* C4: folding the events of a block range into the Borrower map a second time,
\* or folding a second range that overlaps the first, gives the map that folding
\* the blocks once gives.
C4_FoldIdempotent ==
    \A a \in RangePoints, b \in RangePoints, c \in RangePoints, d \in RangePoints :
        a <= c /\ c <= b /\ b <= d
          => /\ FoldBlocks(FoldBlocks(borrowers, a, b), a, b) = FoldBlocks(borrowers, a, b)
             /\ FoldBlocks(FoldBlocks(borrowers, a, b), c, d) = FoldBlocks(borrowers, a, d)

\* a successful pass fetched a borrow event that an earlier pass had folded
C4_Witness ==
    /\ pass.ran /\ pass.ok
    /\ \E i \in DOMAIN pass.borrow_logs :
         LET e == pass.borrow_logs[i]
         IN /\ e.on_behalf_of \in DOMAIN pass.old_borrowers
            /\ e.reserve \in pass.old_borrowers[e.on_behalf_of].debt
    /\ \E u \in DOMAIN borrowers : borrowers[u].collateral # {} /\ borrowers[u].debt # {}

\* C5: the StateCache a successful pass up to block N wrote, loaded by load_cache,
\* gives the Borrower map of the strategy and the checkpoint N; with no cache
\* file, load_cache sets the checkpoint to creation_block and leaves the map.
C5_CacheRoundTrip ==
    [][ /\ (pass'.ran /\ pass'.ok
              => /\ last_block_number' = pass'.latest_block
                 /\ load_cache(file', 0, << >>)
                      = [ok |-> TRUE, last_block_number |-> pass'.latest_block,
                         borrowers |-> borrowers'])
        /\ (file.kind = "absent"
              => /\ load_cache(file, last_block_number, borrowers)
                      = [ok |-> TRUE, last_block_number |-> creation_block,
                         borrowers |-> borrowers]
                 /\ (pc = "new" /\ pass'.ran
                       => /\ pass'.from_block = creation_block
                          /\ pass'.old_borrowers = borrowers)) ]_vars

\* started without a file, a pass wrote a cache holding a borrower whose
\* collateral and debt differ
C5_Witness ==
    /\ pass.ran /\ pass.ok
    /\ pass.from_block = creation_block
    /\ file.kind = "valid"
    /\ \E u \in DOMAIN borrowers :
         /\ borrowers[u].collateral # {}
         /\ borrowers[u].debt # {}
         /\ borrowers[u].collateral # borrowers[u].debt

\* C6: with a malformed cache file load_cache fails, the checkpoint is not set to
\* creation_block, the Borrower map is as it was, and sync_state fails without
\* running update_state.
C6_MalformedCacheFails ==
    [][ pc = "new" /\ file.kind = "corrupt"
          => /\ ~load_cache(file, last_block_number, borrowers).ok
             /\ pc' = "failed"
             /\ ~pass'.ran
             /\ last_block_number' = last_block_number
             /\ last_block_number' # creation_block
             /\ borrowers' = borrowers
             /\ file' = file ]_vars

\* sync_state failed at load_cache: the configurations were loaded, the file is
\* malformed
C6_Witness ==
    /\ pc = "failed"
    /\ file.kind = "corrupt"
    /\ tokens # << >>
    /\ ~pass.ran
    /\ last_block_number = 0

(***************************************************************************)
(* The underwater scanner.                                                 *)
(***************************************************************************)
\* C7: get_underwater_borrowers returns only borrowers with a non-empty debt set
\* whose reported health factor is strictly below 1e18, each with that health
\* factor, in ascending order of health factor.
C7_OnlyUnderwaterSorted ==
    scan.ran /\ scan.ok
      => /\ \A i \in DOMAIN scan.list :
              /\ scan.list[i][1] \in DOMAIN borrowers
              /\ borrowers[scan.list[i][1]].debt # {}
              /\ scan.list[i][2] = scan.hf[scan.list[i][1]]
              /\ scan.list[i][2] < HF_ONE
         /\ \A i \in DOMAIN scan.list, j \in DOMAIN scan.list :
              i < j => scan.list[i][2] <= scan.list[j][2]

\* a scan returned borrowers of different health factors, among borrowers without
\* debt that are below 1e18 and borrowers with debt at exactly 1e18
C7_Witness ==
    /\ scan.ran /\ scan.ok
    /\ Len(scan.list) > 1
    /\ scan.list[1][2] < scan.list[Len(scan.list)][2]
    /\ \E u \in DOMAIN borrowers : borrowers[u].debt = {} /\ scan.hf[u] < HF_ONE
    /\ \E u \in DOMAIN borrowers : borrowers[u].debt # {} /\ scan.hf[u] = HF_ONE

\* C8: the list the scanner returns never has more than 50 entries.
C8_AtMostFifty ==
    scan.ran /\ scan.ok => Len(scan.list) <= UNDERWATER_STOP

\* C9: no borrower with debt that the returned list leaves out has a lower health
\* factor than a borrower in the list.
C9_NoneLeftOutLower ==
    scan.ran /\ scan.ok
      => \A u \in DOMAIN borrowers :
           /\ borrowers[u].debt # {}
           /\ \A i \in DOMAIN scan.list : scan.list[i][1] # u
           => \A i \in DOMAIN scan.list : scan.hf[u] >= scan.list[i][2]

(***************************************************************************)
(* The tick handler.                                                       *)
(***************************************************************************)
\* C10: a tick submits an action only for an opportunity of strictly positive
\* profit.
C10_SubmitOnlyPositiveProfit ==
    \A i \in DOMAIN emitted : emitted[i].gas_bid_info.total_profit > 0

(***************************************************************************)
(* The opportunity evaluator.                                              *)
(***************************************************************************)
\* what get_liquidation_opportunity gives for the i-th candidate of the scanner's
\* list
CandidateResult(i) ==
    get_liquidation_opportunity(borrowers[eval.underwater[i][1]], eval.underwater[i][2],
                                get_pool_state(tokens, eval.mkt), tokens, eval.mkt,
                                use_aave_liquidator, config_l2_encoder)

\* the candidates whose evaluation gave an opportunity
OkCandidates == { i \in DOMAIN eval.underwater : CandidateResult(i).kind = "ok" }

Profit(i) == CandidateResult(i).val.profit_eth

\* the selection returned is that of the first candidate of maximum profit
FirstMaximum ==
    IF OkCandidates = {} THEN ~eval.result.val.some
    ELSE /\ eval.result.val.some
         /\ \E i \in OkCandidates :
              /\ eval.result.val.op = CandidateResult(i).val
              /\ \A j \in OkCandidates :
                   /\ Profit(j) <= Profit(i)
                   /\ (j < i => Profit(j) < Profit(i))

\* C11: get_best_liquidation_op returns the opportunity of maximum profit among
\* the candidates evaluated with success, in scanner order, and of those tied at
\* the maximum the first; when every profit is negative the tick emits no action.
C11_BestIsFirstMaximum ==
    eval.ran /\ eval.result.kind = "ok"
      => /\ FirstMaximum
         /\ ((\A i \in OkCandidates : Profit(i) < 0) => emitted = << >>)

\* the candidates' profits were -5, 3, 10, 10 and the third was selected
C11_Witness ==
    /\ eval.ran /\ eval.result.kind = "ok"
    /\ Len(eval.underwater) = 4
    /\ OkCandidates = 1..4
    /\ [i \in 1..4 |-> Profit(i)] = << -5, 3, 10, 10 >>
    /\ eval.result.val.op.borrower = eval.underwater[3][1]
    /\ emitted # << >>

\* C12: every opportunity the evaluator produces, with or without the collateral
\* cap, has debt_to_cover at most (stable debt + variable debt) * close factor /
\* 10000.
C12_DebtToCoverWithinCloseFactor ==
    eval.ran
      => \A i \in OkCandidates :
           LET op == CandidateResult(i).val
           IN op.debt_to_cover * MAX_LIQUIDATION_CLOSE_FACTOR
                <= eval.mkt.debt[op.borrower][op.debt]
                     * close_factor_of(eval.underwater[i][2])

\* C13: in both liquidation modes the evaluator returns an error when the chosen
\* collateral and debt are one address or debt_to_cover is zero: every opportunity
\* it returns has collateral # debt and debt_to_cover > 0.
C13_NoSameAssetNoZeroDebt ==
    eval.ran
      => \A i \in DOMAIN eval.underwater :
           LET b == borrowers[eval.underwater[i][1]]
               r == CandidateResult(i)
           IN /\ (b.collateral # {} /\ b.collateral = b.debt => r.kind = "err")
              /\ (r.kind = "ok" => r.val.collateral # r.val.debt /\ r.val.debt_to_cover > 0)

\* the errors of get_liquidation_opportunity for data that is missing
DataMissing ==
    {"No collateral found", "No debt found", "No collateral price", "No debt price",
     "Failed to get collateral address", "Failed to get debt address",
     "No price found for asset"}

\* the candidates whose evaluation failed for missing data
MissingCandidates ==
    { i \in DOMAIN eval.underwater :
        CandidateResult(i).kind = "err" /\ CandidateResult(i).why \in DataMissing }

\* C14: a candidate whose evaluation fails for a missing price, a missing token
\* configuration or an empty collateral set is skipped alone: the candidates after
\* it are evaluated and the best of those evaluated with success is returned.
C14_MissingDataSkipsOneCandidate ==
    /\ eval.ran
    /\ eval.mkt.fail \notin {"multicall", "scan", "prices"}
    /\ MissingCandidates # {}
    /\ \A i \in DOMAIN eval.underwater : CandidateResult(i).kind # "panic"
    => /\ eval.result.kind = "ok"
       /\ eval.result.val.some = (OkCandidates # {})
       /\ FirstMaximum
       /\ \A i \in MissingCandidates :
            eval.result.val.some => eval.result.val.op.borrower # eval.underwater[i][1]

\* the evaluation of a candidate failed for missing data and a later candidate
\* was selected
C14_Witness ==
    /\ eval.ran
    /\ eval.result.kind = "ok"
    /\ eval.result.val.some
    /\ \E i \in MissingCandidates, j \in OkCandidates :
         /\ i < j
         /\ eval.result.val.op.borrower = eval.underwater[j][1]
    /\ { CandidateResult(i).why : i \in MissingCandidates } # {"No collateral found"}

\* C15: an overflow or a division by zero in the evaluation of one borrower makes
\* that evaluation an error value: the other candidates are evaluated and the cycle
\* goes on.
C15_ArithmeticFailureSkipsOneCandidate ==
    eval.ran
      => /\ \A i \in DOMAIN eval.underwater : CandidateResult(i).kind \in {"ok", "err"}
         /\ pc # "panicked"
         /\ (eval.underwater # << >> /\ eval.mkt.fail \notin {"multicall", "scan", "prices"}
               => eval.result.kind = "ok" /\ FirstMaximum)

(***************************************************************************)
(* Fixed-point arithmetic.                                                 *)
(***************************************************************************)
\* what the claim says of mul(a, b) = r for the scale and its overflow message
MulLaw(r, a, b, scale, message) ==
    /\ (a = 0 \/ b = 0 => r = Ok(0))
    /\ (r.kind = "panic" <=> b # 0 /\ a > (max_value - scale \div 2) \div b)
    /\ (r.kind = "panic" <=> a * b + scale \div 2 > max_value)
    /\ (r.kind = "panic" => r.why = message)
    /\ (r.kind # "panic" => r = Ok((a * b + scale \div 2) \div scale))

\* C16: wad and ray mul(a, b) return 0 without error when b = 0 and when a = 0;
\* they fail with the overflow exactly when b # 0 and a > (MAX - SCALE/2) / b, which
\* is exactly when a * b + SCALE/2 exceeds MAX; otherwise they return
\* floor((a * b + SCALE/2) / SCALE).
C16_MulRoundsHalfUpOrOverflows ==
    math.ran
      => /\ MulLaw(math.wad_mul, math.a, math.b, WAD, "wadMul: multiplication overflow")
         /\ MulLaw(math.ray_mul, math.a, math.b, RAY, "rayMul: multiplication overflow")

\* wad_mul failed one unit above the largest safe a, for which it gives a result
\* that is not 0
C16_Witness ==
    /\ math.ran
    /\ math.a > 1 /\ math.b > 1
    /\ math.wad_mul.kind = "panic"
    /\ wad_mul(math.a - 1, math.b).kind = "ok"
    /\ wad_mul(math.a - 1, math.b).val > 0

\* what the claim says of div(a, b) = r for the scale and its messages
DivLaw(r, a, b, scale, zero_message, overflow_message) ==
    /\ (b = 0 => r = Panic(zero_message))
    /\ (b # 0 =>
          /\ (r.kind = "panic" <=> a > (max_value - b \div 2) \div scale)
          /\ (r.kind = "panic" <=> a * scale + b \div 2 > max_value)
          /\ (r.kind = "panic" => r.why = overflow_message)
          /\ (r.kind # "panic" => r = Ok((a * scale + b \div 2) \div b)))

\* C17: wad and ray div(a, b) fail with the division by zero for every a when
\* b = 0; for b # 0 they fail with the overflow exactly when
\* a > (MAX - floor(b/2)) / SCALE, which is exactly when a * SCALE + floor(b/2)
\* exceeds MAX; otherwise they return floor((a * SCALE + floor(b/2)) / b).
C17_DivRoundsHalfUpOrFails ==
    math.ran
      => /\ DivLaw(math.wad_div, math.a, math.b, WAD,
                   "wadDiv: division by zero", "wadDiv: multiplication overflow")
         /\ DivLaw(math.ray_div, math.a, math.b, RAY,
                   "rayDiv: division by zero", "rayDiv: multiplication overflow")

\* wad_div failed one unit above the largest safe a, for which it rounds up
C17_Witness ==
    /\ math.ran
    /\ math.a > 1 /\ math.b > 1
    /\ math.wad_div.kind = "panic"
    /\ wad_div(math.a - 1, math.b).kind = "ok"
    /\ wad_div(math.a - 1, math.b).val > ((math.a - 1) * WAD) \div math.b
    /\ wad_div(0, 0).kind = "panic"

Abs(x) == IF x < 0 THEN 0 - x ELSE x

\* div(mul(a, b), b) where neither fails
wad_round_trip(a, b) == wad_div(wad_mul(a, b).val, b)
ray_round_trip(a, b) == ray_div(ray_mul(a, b).val, b)

\* both round trips are defined on the arguments drawn
RoundTripsDefined ==
    /\ math.ran
    /\ math.b # 0
    /\ math.wad_mul.kind = "ok" /\ wad_round_trip(math.a, math.b).kind = "ok"
    /\ math.ray_mul.kind = "ok" /\ ray_round_trip(math.a, math.b).kind = "ok"

\* C18, as stated: for all a and b # 0 for which mul(a, b) and div(mul(a, b), b) do
\* not fail, div(mul(a, b), b) differs from a by at most one unit.
C18_RoundTripWithinOneUnit ==
    /\ (math.ran /\ math.b # 0 /\ math.wad_mul.kind = "ok"
          /\ wad_round_trip(math.a, math.b).kind = "ok"
          => Abs(wad_round_trip(math.a, math.b).val - math.a) <= 1)
    /\ (math.ran /\ math.b # 0 /\ math.ray_mul.kind = "ok"
          /\ ray_round_trip(math.a, math.b).kind = "ok"
          => Abs(ray_round_trip(math.a, math.b).val - math.a) <= 1)

\* C18, amended: for all a and b # 0 for which mul(a, b) and div(mul(a, b), b) do
\* not fail, div(mul(a, b), b) differs from a by at most floor(SCALE / (2 * b)) + 1
\* units: by at most one unit when b > SCALE / 2.
C18_RoundTripWithinScaleOverB ==
    /\ (math.ran /\ math.b # 0 /\ math.wad_mul.kind = "ok"
          /\ wad_round_trip(math.a, math.b).kind = "ok"
          => Abs(wad_round_trip(math.a, math.b).val - math.a) <= WAD \div (2 * math.b) + 1)
    /\ (math.ran /\ math.b # 0 /\ math.ray_mul.kind = "ok"
          /\ ray_round_trip(math.a, math.b).kind = "ok"
          => Abs(ray_round_trip(math.a, math.b).val - math.a) <= RAY \div (2 * math.b) + 1)

\* a round trip with b above half the wad came back one unit away from a
C18_Witness ==
    /\ RoundTripsDefined
    /\ 2 * math.b > WAD
    /\ math.wad_mul.val > 0
    /\ Abs(wad_round_trip(math.a, math.b).val - math.a) = 1

\* C19: mul commutes, in its failures too: mul(a, b) fails with the overflow if and
\* only if mul(b, a) does, and when neither fails the two are equal, a zero
\* argument on either side included.
C19_MulCommutes ==
    math.ran
      => /\ math.wad_mul = wad_mul(math.b, math.a)
         /\ math.ray_mul = ray_mul(math.b, math.a)
         /\ (math.wad_mul.kind = "panic" <=> wad_mul(math.b, math.a).kind = "panic")
         /\ (math.ray_mul.kind = "panic" <=> ray_mul(math.b, math.a).kind = "panic")

\* ray_mul of a zero b and an a that is above every bound, and the same arguments
\* exchanged
C19_Witness ==
    /\ math.ran
    /\ math.b = 0
    /\ math.a = max_value
    /\ math.ray_mul = Ok(0)
    /\ ray_mul(math.b, math.a) = Ok(0)

\* C20: for every a of the range, values near MAX included, ray_to_wad(a) is
\* floor(a / ratio) + 1 when a mod ratio is at least half the ratio and
\* floor(a / ratio) otherwise, and it never fails; one ray plus half the ratio less
\* one gives one wad, one ray plus half the ratio gives one wad plus one.
C20_RayToWadRoundsHalfUp ==
    /\ (math.ran
          => /\ math.ray_to_wad.kind = "ok"
             /\ math.ray_to_wad.val \in Words
             /\ math.ray_to_wad.val
                  = IF math.a % WAD_RAY_RATIO >= WAD_RAY_RATIO \div 2
                    THEN math.a \div WAD_RAY_RATIO + 1
                    ELSE math.a \div WAD_RAY_RATIO
             /\ 2 * Abs(math.ray_to_wad.val * WAD_RAY_RATIO - math.a) <= WAD_RAY_RATIO)
    /\ ray_to_wad(RAY + WAD_RAY_RATIO \div 2 - 1) = Ok(WAD)
    /\ ray_to_wad(RAY + WAD_RAY_RATIO \div 2) = Ok(WAD + 1)

\* an a within one ratio of MAX, at or above the half, was rounded up
C20_Witness ==
    /\ math.ran
    /\ math.a >= max_value - WAD_RAY_RATIO
    /\ math.ray_to_wad = Ok(math.a \div WAD_RAY_RATIO + 1)

\* C21: wad_to_ray(a) returns a * ratio when a is at most floor(MAX / ratio) and
\* fails with an overflow for every larger a; for every a it does not fail on,
\* ray_to_wad(wad_to_ray(a)) = a.
C21_WadToRayExactOrOverflows ==
    math.ran
      => /\ (math.a <= max_value \div WAD_RAY_RATIO
               => math.wad_to_ray = Ok(math.a * WAD_RAY_RATIO))
         /\ (math.a > max_value \div WAD_RAY_RATIO
               => /\ math.wad_to_ray.kind = "panic"
                  /\ math.wad_to_ray.why = "arithmetic operation overflow")
         /\ (math.wad_to_ray.kind = "ok"
               => /\ math.wad_to_ray.val \in Words
                  /\ ray_to_wad(math.wad_to_ray.val) = Ok(math.a))

\* the largest a that wad_to_ray converts, one below the first it fails on
C21_Witness ==
    /\ math.ran
    /\ math.a > 0
    /\ math.wad_to_ray.kind = "ok"
    /\ wad_to_ray(math.a + 1).kind = "panic"
    /\ ray_to_wad(math.wad_to_ray.val) = Ok(math.a)

(***************************************************************************)
(* Token configurations and approvals.                                     *)
(***************************************************************************)
\* the reserves whose configuration call and protocol-fee call both succeed
Succeeded(tf) == { r \in Reserves : r \notin tf.cfg /\ r \notin tf.fee }

\* C22: after a refresh of the token configurations that returned Ok, the
\* TokenConfig map holds exactly the reserves for which the configuration call
\* and the protocol-fee call both succeeded in that refresh: a reserve that
\* failed either call is absent, even if an earlier refresh had recorded it,
\* and the failure of one reserve keeps no other reserve out of the map.
C22_MapIsExactlyThisRefresh ==
    (setup.ran /\ setup.call = "update_token_configs" /\ setup.ok)
        => DOMAIN tokens = Succeeded(setup.tf)

\* the reserves of the map whose relevant allowance approve_tokens finds zero:
\* the sender's when use_aave_liquidator is set, the liquidator's otherwise
ZeroAllowance ==
    { t \in DOMAIN tokens :
        t \notin setup.allowance_before[allowance_owner(use_aave_liquidator)] }

ApprovedTokens == { approvals[i].token : i \in 1..Len(approvals) }

\* C23: in one pass of approve_tokens an approval is submitted only for a
\* reserve of the map whose relevant allowance is zero (the sender's when
\* use_aave_liquidator is set, the liquidator's otherwise) and at most once per
\* reserve; a pass that returns Ok submitted exactly one for each such reserve;
\* the nonces are consecutive from the transaction count read at the start, so
\* pairwise distinct, and the counter has advanced by one for each submission
\* that succeeded and by nothing else.
C23_OneApprovalPerZeroAllowance ==
    (setup.ran /\ setup.call = "approve_tokens")
        => /\ ApprovedTokens \subseteq ZeroAllowance
           /\ Cardinality(ApprovedTokens) = Len(approvals)
           /\ setup.ok => ApprovedTokens = ZeroAllowance
           /\ \A i \in 1..Len(approvals) :
                /\ approvals[i].nonce = setup.count_before + (i - 1)
                /\ approvals[i].call = IF use_aave_liquidator THEN "approve"
                                       ELSE "approve_pool"
           /\ tx_count = setup.count_before + Len(approvals)

\* a pass that returned Ok, started from a transaction count above zero, left
\* out a reserve whose allowance was not zero and approved another
C23_Witness ==
    /\ setup.ran /\ setup.call = "approve_tokens" /\ setup.ok
    /\ setup.count_before > 0
    /\ ZeroAllowance # {}
    /\ DOMAIN tokens \ ZeroAllowance # {}
    /\ approvals # << >>
    /\ approvals[1].nonce = setup.count_before

(***************************************************************************)
(* The tick.                                                               *)
(***************************************************************************)
\* the place of a call in the order refresh of the token configurations,
\* approvals, state sync, scan, price snapshot, evaluation, transaction
StageOf(call) ==
    CASE call = "update_token_configs" -> 1
      [] call = "approve_tokens" -> 2
      [] call = "update_state" -> 3
      [] call \in {"get_best_liquidation_op", "get_underwater_borrowers"} -> 4
      [] call = "get_pool_state" -> 5
      [] call = "get_liquidation_opportunity" -> 6
      [] call = "build_liquidation" -> 7
      [] OTHER -> 0

CountOf(call, c) == Cardinality({ i \in 1..Len(c) : c[i] = call })

\* C24: every tick starts with the refresh of the token configurations, goes
\* on to the approvals before it syncs the state, and keeps the order refresh,
\* approvals, state sync, scan, price snapshot, evaluation, transaction; the
\* candidates of one tick are evaluated against one price snapshot and the
\* tick returns at most one transaction.
C24_TickRefreshesTokensAndAllowances ==
    [][pc = "running"
         => /\ calls' # << >> /\ calls'[1] = "update_token_configs"
            /\ CountOf("update_state", calls') = 1 => CountOf("approve_tokens", calls') = 1
            /\ \A i, j \in 1..Len(calls') :
                 i < j => StageOf(calls'[i]) <= StageOf(calls'[j])
            /\ CountOf("get_pool_state", calls') <= 1
            /\ CountOf("get_liquidation_opportunity", calls') > 0
                 => CountOf("get_pool_state", calls') = 1
            /\ Len(emitted') <= 1]_vars

(***************************************************************************)
(* The windows of a pass and the order of persisting.                      *)
(***************************************************************************)
\* ws are windows of at most LOG_BLOCK_RANGE blocks that follow each other
\* without gap or overlap and whose union is [from_block, to_block]
CoversExactly(ws, from_block, to_block) ==
    /\ ws # << >>
    /\ ws[1][1] = from_block
    /\ ws[Len(ws)][2] = to_block
    /\ \A i \in 1..Len(ws) :
         ws[i][1] <= ws[i][2] /\ ws[i][2] - ws[i][1] + 1 <= LOG_BLOCK_RANGE
    /\ \A i \in 1..(Len(ws) - 1) : ws[i + 1][1] = ws[i][2] + 1

\* C25: in a pass from checkpoint c to head h with c < h that fetched every
\* window, the windows queried for the borrow logs and those queried for the
\* supply logs are each at most 1024 blocks wide, do not overlap, follow each
\* other without gap and have [c, h] as their union, whatever h - c is.
C25_WindowsCoverCheckpointToHead ==
    (pass.ran /\ pass.ok /\ pass.from_block < pass.latest_block)
        => /\ CoversExactly(pass.borrow_windows, pass.from_block, pass.latest_block)
           /\ CoversExactly(pass.supply_windows, pass.from_block, pass.latest_block)

\* C26: a pass persists the StateCache first and advances the checkpoint in
\* memory only after the persist succeeded: when creating or writing the file
\* fails, the checkpoint keeps the value it had before the pass.
C26_CheckpointAdvancesAfterPersist ==
    (pass.ran /\ pass.failed \in {"create", "write"})
        => last_block_number = pass.from_block

(***************************************************************************)
(* The amounts of an opportunity.                                          *)
(***************************************************************************)
\* the digits of LIQUIDATION_CLOSE_FACTOR_THRESHOLD read as a decimal number:
\* 0.95 * 10^18, counted in units of 10^16
THRESHOLD_AS_DECIMAL == 95

\* the total debt of the i-th candidate in its debt asset
TotalDebt(i) ==
    eval.mkt.debt[CandidateResult(i).val.borrower][CandidateResult(i).val.debt]

\* C27: the threshold the code builds from the string constant is
\* 950000000000000000 read as a decimal number, and the close factor of a
\* candidate is 5000 when its health factor is above that threshold and 10000
\* otherwise: without the collateral cap its debt_to_cover is the total debt
\* times that close factor over 10000.
C27_CloseFactorHalfAboveThreshold ==
    eval.ran
      => /\ LIQUIDATION_CLOSE_FACTOR_THRESHOLD = THRESHOLD_AS_DECIMAL
         /\ \A i \in DOMAIN eval.underwater :
              LET hf == eval.underwater[i][2]
                  cf == IF hf > THRESHOLD_AS_DECIMAL
                        THEN DEFAULT_LIQUIDATION_CLOSE_FACTOR
                        ELSE MAX_LIQUIDATION_CLOSE_FACTOR
              IN /\ close_factor_of(hf) = cf
                 /\ (i \in OkCandidates /\ ~CandidateResult(i).val.capped)
                      => CandidateResult(i).val.debt_to_cover
                           = (TotalDebt(i) * cf) \div MAX_LIQUIDATION_CLOSE_FACTOR

\* what the i-th candidate's opportunity is computed from
DebtPrice(i) == eval.mkt.prices[CandidateResult(i).val.debt]
CollateralPrice(i) == eval.mkt.prices[CandidateResult(i).val.collateral]
DebtDecimals(i) == tokens[CandidateResult(i).val.debt].decimals
CollateralDecimals(i) == tokens[CandidateResult(i).val.collateral].decimals
Bonus(i) == tokens[CandidateResult(i).val.collateral].liquidation_bonus
Balance(i) ==
    eval.mkt.balance[CandidateResult(i).val.borrower][CandidateResult(i).val.collateral]

\* base_collateral for a debt_to_cover of dtc
BaseCollateral(i, dtc) ==
    (DebtPrice(i) * dtc * 10 ^ CollateralDecimals(i))
        \div (CollateralPrice(i) * 10 ^ DebtDecimals(i))

\* C28: without the collateral cap, debt_to_cover is floor(total debt * close
\* factor / 10000), base_collateral is floor((debt price * debt_to_cover *
\* 10^collateral decimals) / (collateral price * 10^debt decimals)) and
\* collateral_to_liquidate is floor((base_collateral * bonus + 5000) / 10000);
\* a debt of 1000 gives 500 at 5000 bps and 1000 at 10000 bps, and collateral
\* price 100, debt price 50, equal decimals and debt_to_cover 500 give a
\* base_collateral of 250.
C28_UncappedAmounts ==
    /\ eval.ran
         => \A i \in OkCandidates :
              LET op == CandidateResult(i).val
                  dtc == (TotalDebt(i) * close_factor_of(eval.underwater[i][2])) \div 10000
                  ctl == (BaseCollateral(i, dtc) * Bonus(i) + 5000) \div 10000
              IN /\ ~op.capped <=> ctl <= Balance(i)
                 /\ ~op.capped => /\ op.debt_to_cover = dtc
                                  /\ op.collateral_to_liquidate = ctl
    /\ LET half == liquidation_amounts(1000, 5000, 50, 100, 10, 10, 10500, 1000).val
           all == liquidation_amounts(1000, 10000, 50, 100, 10, 10, 10500, 1000).val
       IN /\ half.debt_to_cover = 500 /\ half.base_collateral = 250
          /\ half.collateral_to_liquidate = 263
          /\ all.debt_to_cover = 1000 /\ all.base_collateral = 500

\* an opportunity without the cap whose bonus adds to the base collateral: a
\* debt of 20 taken whole, base collateral 20, 21 to seize out of a balance of 100
C28_Witness ==
    /\ eval.ran
    /\ \E i \in OkCandidates :
         /\ ~CandidateResult(i).val.capped
         /\ TotalDebt(i) = 20 /\ Balance(i) = 100
         /\ CandidateResult(i).val.debt_to_cover = 20
         /\ BaseCollateral(i, 20) = 20
         /\ CandidateResult(i).val.collateral_to_liquidate = 21

\* C29: when the collateral to seize exceeds the borrower's aToken balance,
\* collateral_to_liquidate is the balance, the new debt_to_cover is
\* percent_div(collateral price * balance * debt unit / (debt price *
\* collateral unit), bonus) up to one unit of rounding, and the collateral
\* the new debt_to_cover implies exceeds the balance by at most one unit.
C29_CappedAmountsFitBalance ==
    eval.ran
      => \A i \in OkCandidates :
           LET op == CandidateResult(i).val
               value == (CollateralPrice(i) * Balance(i) * 10 ^ DebtDecimals(i))
                           \div (DebtPrice(i) * 10 ^ CollateralDecimals(i))
               implied == percent_mul(BaseCollateral(i, op.debt_to_cover), Bonus(i))
           IN op.capped
                => /\ op.collateral_to_liquidate = Balance(i)
                   /\ Abs(op.debt_to_cover - percent_div(value, Bonus(i))) <= 1
                   /\ implied <= Balance(i) + 1

(***************************************************************************)
(* The run after a crash during the write of the cache.                    *)
(***************************************************************************)
\* C30: when an earlier run crashed while it wrote the cache and left the file
\* truncated or otherwise malformed, the load step of the next run takes the
\* deployment block as the checkpoint and the run goes on to the pass that
\* derives the Borrower map from the chain, starting at that block.
C30_CorruptCacheFallsBackToDeployment ==
    [][ (pc = "new" /\ file.kind = "corrupt" /\ CountOf("load_cache", calls') = 1)
          => /\ load_cache(file, last_block_number, borrowers).ok
             /\ load_cache(file, last_block_number, borrowers).last_block_number
                  = creation_block
             /\ pass'.ran
             /\ pass'.from_block = creation_block ]_vars

(***************************************************************************)
(* What a tick emits.                                                      *)
(***************************************************************************)
\* the transaction builder fails for the opportunity op of the last tick
BuildFails(op) ==
    build_liquidation(op, use_aave_liquidator, config_l2_encoder, eval.mkt.fail = "build",
                      chain_id).kind # "ok"

\* the action a tick emits for the opportunity op
ActionFor(op) ==
    [tx |-> [to |-> IF use_aave_liquidator THEN "pool" ELSE "liquidator",
             collateral |-> op.collateral, debt |-> op.debt, borrower |-> op.borrower,
             debt_to_cover |-> op.debt_to_cover, chain_id |-> chain_id],
     gas_bid_info |-> [bid_percentage |-> bid_percentage, total_profit |-> op.profit_eth]]

\* what a tick leaves: calls starts with update_state after a tick, with
\* update_token_configs after sync_state
TickEmission ==
    /\ Len(emitted) <= 1
    /\ (pass.ran /\ ~pass.ok) => (emitted = << >> /\ ~eval.ran /\ pc = "running")
    /\ eval.ran
         => /\ (\/ eval.mkt.fail \in {"multicall", "scan", "prices"}
                \/ eval.underwater = << >>)
                  => (emitted = << >> /\ eval.result.kind = "err" /\ pc = "running")
            /\ (eval.result.kind = "ok" /\ eval.result.val.some
                  /\ BuildFails(eval.result.val.op))
                  => (emitted = << >> /\ pc = "running")
    /\ emitted # << >>
         => /\ eval.ran /\ eval.result.kind = "ok" /\ eval.result.val.some
            /\ FirstMaximum
            /\ emitted[1] = ActionFor(eval.result.val.op)

\* C31: a tick emits at most one SubmitTx action; it emits none, and leaves
\* the strategy running for the next tick, when the synchronization pass
\* fails, when the health-factor multicall or the price multicall fails, when
\* no borrower is underwater or when building the transaction fails; an
\* action it emits carries the collateral, debt, borrower and debt_to_cover of
\* the best opportunity selected, the configured chain id and the gas bid of
\* the configured percentage and that opportunity's profit.
C31_TickEmitsBestOrNothing ==
    (calls # << >> /\ calls[1] = "update_state") => TickEmission

\* a tick whose pass succeeded and that emitted the action of its best
\* opportunity
C31_Witness ==
    /\ pc = "running" /\ eval.ran /\ pass.ok
    /\ calls[1] = "update_state"
    /\ emitted # << >>
    /\ emitted[1].tx.borrower = eval.result.val.op.borrower
    /\ emitted[1].gas_bid_info.total_profit = eval.result.val.op.profit_eth

(***************************************************************************)
(* Passes one after the other.                                             *)
(***************************************************************************)
\* the event e is in the Borrower map m
Folded(m, e) ==
    e.reserve \in Known(m, e.on_behalf_of, IF e.kind = "borrow" THEN "debt" ELSE "collateral")

\* C32: no block's events are missed for good: every borrow and supply event
\* of a block at or above the deployment block, where the first run starts, and
\* strictly below the checkpoint is in the Borrower map; the block the
\* checkpoint stands at is queried by the next pass.
C32_NoBlockBelowCheckpointMissed ==
    \A i \in DOMAIN chain :
        (creation_block <= chain[i].block /\ chain[i].block < last_block_number)
            => Folded(borrowers, chain[i])

\* a pass that started at a checkpoint whose block holds an event, after an
\* earlier pass had stopped there, and that folded this event
C32_Witness ==
    /\ pc = "running" /\ pass.ran /\ pass.ok
    /\ pass.from_block > creation_block
    /\ pass.from_block < last_block_number
    /\ \E i \in DOMAIN chain :
         /\ chain[i].block = pass.from_block
         /\ ~Folded(pass.old_borrowers, chain[i])
         /\ Folded(borrowers, chain[i])

\* the heads the node may return to the passes compared: those of the
\* behaviours and one in between
RetryHeads == Heads \cup {creation_block + 2}

\* the strategy after a pass to head that meets the failure fail, then a pass
\* to H without failure
Retried(head, fail, H) ==
    LET failed == update_state(chain, last_block_number, borrowers, file, head, fail)
    IN update_state(chain, failed.last_block_number, failed.borrowers, failed.file,
                    H, NoFail)

\* the strategy after one pass to H without failure
Direct(H) == update_state(chain, last_block_number, borrowers, file, H, NoFail)

\* C33: with heads that do not decrease, a failed pass followed by a
\* successful pass to head H leaves the Borrower map, the checkpoint and the
\* persisted StateCache that a single successful pass to H from the same state
\* leaves, whatever the call at which the first pass failed.
C33_RetryEqualsSinglePass ==
    pc = "running"
      => \A head \in RetryHeads, H \in RetryHeads :
           (last_block_number <= head /\ head <= H)
             => \A fail \in PassFails(last_block_number, head) \ {NoFail} :
                  /\ Retried(head, fail, H).ok
                  /\ Retried(head, fail, H).borrowers = Direct(H).borrowers
                  /\ Retried(head, fail, H).last_block_number = Direct(H).last_block_number
                  /\ Retried(head, fail, H).file = Direct(H).file

(***************************************************************************)
(* A deployment without an encoder.                                        *)
(***************************************************************************)
\* what the evaluation of the i-th candidate gives on a deployment that has
\* an encoder
DeployedResult(i) ==
    get_liquidation_opportunity(borrowers[eval.underwater[i][1]], eval.underwater[i][2],
                                get_pool_state(tokens, eval.mkt), tokens, eval.mkt,
                                use_aave_liquidator, l2_encoder)

\* C34: with use_aave_liquidator false on a deployment whose l2_encoder is
\* the zero address, the evaluation of no candidate gives an opportunity: a
\* candidate that an encoder would have taken to the encoding fails with the
\* error of build_liquidation_call, and the others fail as they fail with an
\* encoder; get_best_liquidation_op returns no opportunity and the tick emits
\* no action.
C34_ZeroEncoderEmitsNothing ==
    (eval.ran /\ ~use_aave_liquidator /\ config_l2_encoder = zero_address)
      => /\ \A i \in DOMAIN eval.underwater :
              /\ CandidateResult(i).kind # "ok"
              /\ IF DeployedResult(i).kind = "ok"
                      \/ DeployedResult(i) \in {Err("encode_liquidation_call failed"),
                                                Err("liquidate call failed")}
                 THEN CandidateResult(i)
                        = Err("L2 Encoder address is not deployed on this network")
                 ELSE CandidateResult(i) = DeployedResult(i)
         /\ eval.result.kind = "ok" => ~eval.result.val.some
         /\ emitted = << >>

\* a tick on such a deployment whose four candidates would all have given an
\* opportunity, one of them with a profit, had there been an encoder
C34_Witness ==
    /\ eval.ran /\ ~use_aave_liquidator /\ config_l2_encoder = zero_address
    /\ Len(eval.underwater) = 4
    /\ \A i \in 1..4 : DeployedResult(i).kind = "ok"
    /\ \E i \in 1..4 : DeployedResult(i).val.profit_eth > 0
    /\ eval.result.kind = "ok"
    /\ emitted = << >>

====
